---- MODULE Spec2Model ----
(***************************************************************************)
(* A model of pydal2sql-core's retry loop (cli_support.handle_cli) and of  *)
(* the analysis / rewriting helpers it drives (magic.py).                  *)
(*                                                                         *)
(* Python source text is modelled as a sequence of statements.  Every     *)
(* statement is a record                                                   *)
(*     [k, name, arg, lvl, names]                                          *)
(* k     the statement kind                                                *)
(* name  the table / variable / module / function the statement is about  *)
(* arg   a second name (referenced table, imported name, function body)   *)
(* lvl   0 for a statement of the module body (ast tree.body), 1 for a     *)
(*       statement nested in a compound statement such as "if True:"       *)
(* names the targets of the one-line stub bindings "x = empty; y = empty;" *)
(***************************************************************************)
EXTENDS Integers, Sequences, FiniteSets, TLC

\* ------------------------------------------------------------------------
\* Bounds of the model and program constants
\* ------------------------------------------------------------------------

\* statements of the before-snippet and the after-snippet together
MaxStmts == 2

MAX_RETRIES == 30

\* ------------------------------------------------------------------------
\* Statements
\* ------------------------------------------------------------------------

Stmt(k, name, arg, lvl) == [k |-> k, name |-> name, arg |-> arg, lvl |-> lvl, names |-> {}]

\* db.define_table('t')  /  db.define_table('t', Field('r', 'reference r'))
TableStmt(t, r) == Stmt("table", t, r, 0)
\* an expression statement loading the name x
UseStmt(x) == Stmt("use", x, "", 0)
\* x = <constant>
AssignStmt(x) == Stmt("assign", x, "", 0)
\* import m   (lvl 1: nested in a compound statement)
ImportStmt(m, lvl) == Stmt("import", m, "", lvl)
\* from m import y
FromStmt(m, y, lvl) == Stmt("from", m, y, lvl)
\* from . import y
RelImportStmt(y) == Stmt("relimport", "", y, 0)
\* def f(db): db.define_table('body')      (body "" is a function body of "pass")
DefStmt(f, body, lvl) == Stmt("def", f, body, lvl)
\* f(db)
CallStmt(f, a) == Stmt("call", f, a, 0)
\* raise E(...)
RaiseStmt(e) == Stmt("raise", e, "", 0)
\* the expression statement that is left of "db = DAL(...)" without its targets
ExprStmt == Stmt("expr", "", "", 0)
\* class Empty: ...
ClassEmpty == Stmt("class", "Empty", "", 0)
\* empty = Empty()
EmptyInst == Stmt("assign", "empty", "Empty", 0)
\* x = empty; y = empty;
StubStmt(S) == [k |-> "stubs", name |-> "", arg |-> "empty", lvl |-> 0, names |-> S]
\* import m as a
ImportAsStmt(m, a) == Stmt("importas", m, a, 0)
\* del x
DelStmt(x) == Stmt("del", x, "", 0)
\* for x in (): x
ForStmt(x) == Stmt("for", x, "", 0)
\* class c: pass
ClassStmt(c) == Stmt("class", c, "", 0)
\* the header of a compound statement whose only body statement was cut out of the text
EmptyBlock == Stmt("emptyblock", "", "", 0)
\* db.define_table('t', redefine=True)
PlaceholderStmt(t) == Stmt("placeholder", t, "", 0)
\* the three fixed parts of TEMPLATE_PYDAL
TplHead == Stmt("tpl", "head", "", 0)
TplSwitch == Stmt("tpl", "switch", "", 0)
TplTail == Stmt("tpl", "tail", "", 0)

Contains(s, x) == \E i \in 1..Len(s) : s[i] = x

SeqsUpTo(S, n) == UNION {[1..k -> S] : k \in 0..n}

\* ------------------------------------------------------------------------
\* helpers.py
\* ------------------------------------------------------------------------

\* flatten: a list of lists of table names becomes one flat list
RECURSIVE flatten(_)
flatten(it) == IF it = <<>> THEN <<>> ELSE Head(it) \o flatten(Tail(it))

\* uniq: drop repeated items, keeping the first occurrence of each
RECURSIVE uniq(_)
uniq(lst) ==
    IF lst = <<>> THEN <<>>
    ELSE LET init == uniq(SubSeq(lst, 1, Len(lst) - 1))
             last == lst[Len(lst)]
         IN IF Contains(init, last) THEN init ELSE Append(init, last)

\* excl: drop every occurrence of the excluded items, keeping the order of the rest
excl(lst, items) == SelectSeq(lst, LAMBDA t : t \notin items)

\* ------------------------------------------------------------------------
\* magic.py: static analysis
\* ------------------------------------------------------------------------

\* modules that cannot be imported in the environment the scaffold runs in
MissingModules == {"m"}

\* modules that can be imported but lack the name a "from ... import" asks for
IncompleteModules == {"n"}

\* builtins.__dict__ keys the modelled code can mention
BUILTINS == {"print", "ValueError", "KeyError", "RecursionError"}

\* public names "from pydal import *" and the other template imports bind
TemplateImports == {"DAL", "Field", "generate_sql"}

\* ast.Name nodes in Load context
UsedNames(s) ==
    CASE s.k = "use" -> {s.name}
      [] s.k = "call" -> {s.name, s.arg}
      [] s.k = "class" -> IF s = ClassEmpty THEN {"self"} ELSE {}
      [] s.k = "for" -> {s.name}
      [] s.k = "assign" -> IF s.arg = "" THEN {} ELSE {s.arg}
      [] s.k = "stubs" -> IF s.names = {} THEN {} ELSE {s.arg}
      [] s.k = "table" -> {"db", "Field"}
      [] s.k = "placeholder" -> {"db"}
      [] s.k = "def" -> IF s.arg = "" THEN {} ELSE {"db"}
      [] s.k = "raise" -> {s.name}
      [] s.k = "expr" -> {"DAL"}
      [] s.k = "tpl" ->
           (CASE s.name = "head" -> {"DummyDAL"}
              [] s.name = "switch" -> {"db", "DummyDAL"}
              [] OTHER -> {"tables", "_uniq", "db_old", "db_new", "_excl", "_special_tables",
                           "ValueError", "print", "table", "_file", "generate_sql", "db_type"})
      [] OTHER -> {}

\* imported_names and loop_variables: ast.Import gives alias.name (the module, also
\* when the statement binds it under another name), ast.ImportFrom gives
\* alias.asname or alias.name, ast.For gives its target
ImportedNames(s) ==
    CASE s.k \in {"import", "importas"} -> {s.name}
      [] s.k = "from" -> {s.arg}
      [] s.k = "for" -> {s.name}
      [] OTHER -> {}

\* ast.Name nodes in Store context, Assign targets, import bindings, for-loop targets.
\* The name of a FunctionDef / ClassDef is no ast.Name and is not collected;
\* "from . import y" has no module and is not collected either.
DefinedNames(s) ==
    CASE s.k = "assign" -> {s.name}
      [] s.k = "stubs" -> s.names
      [] s.k \in {"import", "importas", "from", "for"} -> ImportedNames(s)
      [] s.k = "tpl" ->
           (CASE s.name = "head" -> {"db", "database", "tables", "db_type"} \cup TemplateImports
              [] s.name = "switch" -> {"db_old", "db_new", "db", "database"}
              [] OTHER -> {"tables", "table"})
      [] OTHER -> {}

\* find_variables calls importlib.import_module on the module of every ImportFrom
\* node it meets; a module that is not installed makes the analysis raise.
AnalysisFailsOn(code) ==
    {code[i].name : i \in {j \in 1..Len(code) : code[j].k = "from" /\ code[j].name \in MissingModules}}

\* defined_variables after the traversal has passed statement i: a Name in Store
\* context or an Assign target adds to it, a Name in Del context discards from it
RECURSIVE defined_variables(_, _)
defined_variables(code, i) ==
    IF i = 0 THEN {}
    ELSE IF code[i].k = "del" THEN defined_variables(code, i - 1) \ {code[i].name}
    ELSE defined_variables(code, i - 1) \cup (DefinedNames(code[i]) \ ImportedNames(code[i]))
                                      \cup (IF code[i].k = "for" THEN {code[i].name} ELSE {})

find_variables(code) ==
    [used |-> UNION {UsedNames(code[i]) : i \in 1..Len(code)},
     all |-> defined_variables(code, Len(code))
             \cup UNION {ImportedNames(code[i]) : i \in 1..Len(code)} \cup BUILTINS]

find_missing_variables(code) ==
    LET v == find_variables(code) IN {var \in v.used : var \notin v.all}

\* Assign targets anywhere in the tree
find_defined_variables(code) ==
    {code[i].name : i \in {j \in 1..Len(code) : code[j].k = "assign"}}

find_local_imports(code) == \E i \in 1..Len(code) : code[i].k = "relimport"

\* find_function_to_call that never returns None
find_function_to_call_always(code, hint) == hint

\* ast.walk: a FunctionDef of that name at any depth
find_function_to_call(code, hint) ==
    IF \E i \in 1..Len(code) : code[i].k = "def" /\ code[i].name = hint
    THEN hint ELSE "None"

\* ------------------------------------------------------------------------
\* magic.py: rewriting
\* ------------------------------------------------------------------------

\* An Assign loses the targets named in to_remove and stays in the body as the bare
\* value expression; a FunctionDef/ClassDef named in to_remove is removed from its
\* parent's body while that body is being iterated, so the statement that follows it
\* is not visited.
RECURSIVE remove_specific_variables_from(_, _, _)
remove_specific_variables_from(code, i, to_remove) ==
    IF i > Len(code) THEN <<>>
    ELSE LET s == code[i] IN
         IF s.k = "assign" /\ s.name \in to_remove
         THEN <<[ExprStmt EXCEPT !.lvl = s.lvl]>> \o remove_specific_variables_from(code, i + 1, to_remove)
         ELSE IF s.k \in {"def", "class"} /\ s.name \in to_remove
         THEN (IF i + 1 <= Len(code) THEN <<code[i + 1]>> ELSE <<>>)
              \o remove_specific_variables_from(code, i + 2, to_remove)
         ELSE <<s>> \o remove_specific_variables_from(code, i + 1, to_remove)

remove_specific_variables(code, to_remove) == remove_specific_variables_from(code, 1, to_remove)

remove_local_imports(code) == SelectSeq(code, LAMBDA s : s.k # "relimport")

\* only the statements of tree.body are filtered: "import M" and "from M import ..."
remove_import(code, module_name) ==
    SelectSeq(code, LAMBDA s : ~(s.lvl = 0 /\ s.k \in {"import", "from"} /\ s.name = module_name))

\* the hint without parenthesised arguments calls the function with db
extract_function_details(function_call) == [function_name |-> function_call, args |-> <<"db">>]

\* a call statement goes right after the FunctionDef of tree.body with that name;
\* with multiple, after every such FunctionDef
RECURSIVE add_function_call_from(_, _, _, _)
add_function_call_from(code, i, d, multiple) ==
    IF i > Len(code) THEN <<>>
    ELSE LET s == code[i] IN
         IF s.k = "def" /\ s.lvl = 0 /\ s.name = d.function_name
         THEN <<s, CallStmt(d.function_name, d.args[1])>>
              \o (IF multiple THEN add_function_call_from(code, i + 1, d, multiple)
                  ELSE SubSeq(code, i + 1, Len(code)))
         ELSE <<s>> \o add_function_call_from(code, i + 1, d, multiple)

add_function_call(code, function_call, multiple) ==
    add_function_call_from(code, 1, extract_function_details(function_call), multiple)

\* generate_magic_code without the "for variable in missing_vars" loop
generate_magic_code_nobind(missing_vars) == <<ClassEmpty, EmptyInst>>

\* one placeholder class, one shared instance, one binding per missing name
generate_magic_code(missing_vars) ==
    <<ClassEmpty, EmptyInst>> \o (IF missing_vars = {} THEN <<>> ELSE <<StubStmt(missing_vars)>>)

\* blocks guarded by a constant-false test are dropped
remove_if_falsey_blocks(code) == SelectSeq(code, LAMBDA s : s.k # "iffalse")

\* ------------------------------------------------------------------------
\* The scaffold and its execution
\* ------------------------------------------------------------------------

\* string.Template(TEMPLATE_PYDAL).substitute(...): $extra is placed before each snippet
Template(before, after, extra) ==
    <<TplHead>> \o extra \o before \o <<TplSwitch>> \o extra \o after \o <<TplTail>>

Exc(cls, msg, arg) == [cls |-> cls, msg |-> msg, arg |-> arg]
NoExc == Exc("", "", "")
NoTablesFound == Exc("ValueError", "no-tables-found", "")

\* core.py: the dialect names _build_dummy_migrator accepts (canonical names and aliases)
SupportedDialects ==
    {"psycopg2", "sqlite3", "pymysql", "postgresql", "postgres", "psql", "sqlite", "sqlite:memory", "mysql"}

\* generate_sql(...): no dialect and none to guess from the dummy database, or a
\* dialect that is not supported, raises ValueError before any SQL is produced
generate_sql_error(db_type) ==
    IF db_type = "" THEN Exc("ValueError", "Database dialect could not be guessed", "")
    ELSE IF db_type \notin SupportedDialects THEN Exc("ValueError", "Unsupported database type", db_type)
    ELSE NoExc

\* ReportFrom without the END marker after a DROP TABLE statement
RECURSIVE ReportFrom_noend(_, _, _, _)
ReportFrom_noend(tl, i, st, db_type) ==
    IF i > Len(tl) THEN st
    ELSE LET t == tl[i]
             started == [st EXCEPT !.file = Append(@, <<"start", t>>)]
             inOld == Contains(st.old, t)
             inNew == Contains(st.db, t)
             sqlErr == generate_sql_error(db_type)
         IN IF inOld /\ ~inNew
            THEN ReportFrom_noend(tl, i + 1, [started EXCEPT !.file = @ \o << <<"DROP", t>> >>], db_type)
            ELSE IF ~inOld /\ ~inNew
            THEN [started EXCEPT !.exc = Exc("AttributeError", "no such table", t)]
            ELSE IF sqlErr # NoExc
            THEN [started EXCEPT !.exc = sqlErr]
            ELSE ReportFrom_noend(tl, i + 1,
                     [started EXCEPT !.file = @ \o << <<IF inOld THEN "ALTER" ELSE "CREATE", t>>,
                                                      <<"end", "">> >>], db_type)

\* the body of the template's "for table in tables:" loop, from table number i on
RECURSIVE ReportFrom(_, _, _, _)
ReportFrom(tl, i, st, db_type) ==
    IF i > Len(tl) THEN st
    ELSE LET t == tl[i]
             started == [st EXCEPT !.file = Append(@, <<"start", t>>)]
             inOld == Contains(st.old, t)
             inNew == Contains(st.db, t)
             sqlErr == generate_sql_error(db_type)
         IN IF inOld /\ ~inNew
            THEN ReportFrom(tl, i + 1,
                     [started EXCEPT !.file = @ \o << <<"DROP", t>>, <<"end", "">> >>], db_type)
            ELSE IF ~inOld /\ ~inNew
            THEN [started EXCEPT !.exc = Exc("AttributeError", "no such table", t)]
            ELSE IF sqlErr # NoExc
            THEN [started EXCEPT !.exc = sqlErr]
            ELSE ReportFrom(tl, i + 1,
                     [started EXCEPT !.file = @ \o << <<IF inOld THEN "ALTER" ELSE "CREATE", t>>,
                                                      <<"end", "">> >>], db_type)

\* db.define_table(t, Field(r, 'reference r')) on the current sandbox
define_table(st, t, r, redefine) ==
    IF Contains(st.db, t) /\ ~redefine
    THEN [st EXCEPT !.exc = Exc("SyntaxError", "table already defined", t)]
    ELSE IF r # "" /\ r # t /\ ~Contains(st.db, r)
    THEN [st EXCEPT !.exc = Exc("KeyError", "Cannot resolve reference", r)]
    ELSE IF Contains(st.db, t) THEN st
    ELSE [st EXCEPT !.db = Append(@, t)]

\* one statement of the scaffold, executed in the scope st
ExecStmt(s, st, env) ==
    CASE s.k = "tpl" /\ s.name = "head" -> [st EXCEPT !.db = <<>>]
      [] s.k = "tpl" /\ s.name = "switch" -> [st EXCEPT !.old = st.db, !.db = <<>>]
      [] s.k = "tpl" /\ s.name = "tail" ->
           LET tl == IF env.tables # <<>> THEN env.tables
                     ELSE excl(uniq(st.old \o st.db), env.special)
           IN IF tl = <<>> THEN [st EXCEPT !.exc = NoTablesFound]
              ELSE ReportFrom(tl, 1, st, env.db_type)
      [] s.k = "table" -> define_table(st, s.name, s.arg, FALSE)
      [] s.k = "placeholder" -> define_table(st, s.name, "", TRUE)
      [] s.k = "use" ->
           IF s.name \in st.scope THEN st
           ELSE [st EXCEPT !.exc = Exc("NameError", "is not defined", s.name)]
      [] s.k = "assign" ->
           IF s.arg # "" /\ s.arg \notin st.scope
           THEN [st EXCEPT !.exc = Exc("NameError", "is not defined", s.arg)]
           ELSE [st EXCEPT !.scope = @ \cup {s.name}]
      [] s.k = "stubs" ->
           IF s.names # {} /\ s.arg \notin st.scope
           THEN [st EXCEPT !.exc = Exc("NameError", "is not defined", s.arg)]
           ELSE [st EXCEPT !.scope = @ \cup s.names,
                           !.fdef = [f \in DOMAIN @ |-> IF f \in s.names THEN "stub" ELSE @[f]]]
      [] s.k = "class" -> [st EXCEPT !.scope = @ \cup {s.name}]
      [] s.k \in {"import", "from"} ->
           IF s.name \in MissingModules
           THEN [st EXCEPT !.exc = Exc("ModuleNotFoundError", "No module named", s.name)]
           ELSE IF s.k = "from" /\ s.name \in IncompleteModules
           THEN [st EXCEPT !.exc = Exc("ImportError", "cannot import name", s.name)]
           ELSE [st EXCEPT !.scope = @ \cup {IF s.k = "import" THEN s.name ELSE s.arg}]
      [] s.k = "def" -> [st EXCEPT !.scope = @ \cup {s.name}, !.fdef = [@ EXCEPT ![s.name] = s.arg]]
      [] s.k = "call" ->
           IF s.name \notin st.scope
           THEN [st EXCEPT !.exc = Exc("NameError", "is not defined", s.name)]
           ELSE IF st.fdef[s.name] \in {"", "stub"} THEN st
           ELSE define_table(st, st.fdef[s.name], "", FALSE)
      [] s.k = "raise" -> [st EXCEPT !.exc = Exc(s.name, "raised by the snippet", "")]
      [] OTHER -> st

FunctionNames == {"define_tables"}

RECURSIVE ExecFrom(_, _, _, _)
ExecFrom(code, i, st, env) ==
    IF i > Len(code) \/ st.exc # NoExc THEN st
    ELSE ExecFrom(code, i + 1, ExecStmt(code[i], st, env), env)

\* compile(): text with a compound statement that has no body is no Python
Parses(code) == \A i \in 1..Len(code) : code[i] # EmptyBlock

\* exec(generated_code, catch): the text is compiled first; catch keeps the names earlier attempts bound; the
\* output channel catch["_file"] is the one handle_cli has just put there
exec(code, scope, env) ==
    LET st == [db |-> <<>>, old |-> <<>>, scope |-> scope, fdef |-> [f \in FunctionNames |-> "stub"],
               file |-> <<>>, exc |-> NoExc]
    IN IF Parses(code) THEN ExecFrom(code, 1, st, env)
       ELSE [st EXCEPT !.exc = Exc("SyntaxError", "expected an indented block", "")]

\* which except clause of handle_cli's try statement takes the exception
ExceptClause(e) ==
    CASE e.cls = "" -> "ok"
      [] e.cls = "ValueError" -> "ValueError"
      [] e.cls \in {"NameError", "UnboundLocalError"} -> "NameError"
      [] e.cls \in {"ImportError", "ModuleNotFoundError"} -> "ImportError"
      [] e.cls = "KeyError" -> "KeyError"
      [] OTHER -> "Exception"

\* ------------------------------------------------------------------------
\* cli_support.py: sanitising and output
\* ------------------------------------------------------------------------

db_names == {"db", "database"}

\* [raises, code]: ValueError unless fix, when the snippet assigns db/database or
\* has a relative import
ensure_no_migrate_on_real_db(code, fix) ==
    LET found == find_defined_variables(code) \cap db_names
        code1 == IF found # {} /\ fix THEN remove_specific_variables(code, db_names) ELSE code
    IN IF found # {} /\ ~fix THEN [raises |-> TRUE, code |-> code]
       ELSE IF find_local_imports(code1)
       THEN (IF fix THEN [raises |-> FALSE, code |-> remove_local_imports(code1)]
             ELSE [raises |-> TRUE, code |-> code])
       ELSE [raises |-> FALSE, code |-> code1]

OutputFormats == {"default", "sql", "", "edwh-migrate"}

\* _handle_output in the default format: the text between the END markers, joined
handle_output_default(contents) == SelectSeq(contents, LAMBDA line : line[1] # "end")

\* ------------------------------------------------------------------------
\* cli_support.handle_cli as a state machine
\* ------------------------------------------------------------------------

VARIABLES
    args,            \* the arguments of the request: magic, noop, function_name, tables, db_type, output_format
    code_before,     \* the before-snippet
    code_after,      \* the after-snippet
    extra_code,      \* accumulated repair statements
    generated_code,  \* the scaffold
    retry_counter,
    err,             \* the local "err": the last error a repairing handler saw
    catch,           \* the names bound in the globals dict handed to exec
    special_tables,  \* the exclusion set
    file,            \* catch["_file"], the captured output channel
    pending,         \* the exception the running except clause is handling
    stderr,          \* diagnostics written to sys.stderr
    output,          \* what the output formatter wrote to the destination
    formatter_calls, \* number of calls of _handle_output
    execs,           \* number of calls of exec
    result,          \* "running", "True", "False" or "raised"
    pc

vars == <<args, code_before, code_after, extra_code, generated_code, retry_counter, err, catch,
          special_tables, file, pending, stderr, output, formatter_calls, execs, result, pc>>

\* the schema diff engine (core.py) and its scratch state
VARIABLES
    call,            \* the arguments of one generate_sql call
    fs,              \* the file system: the folders that exist, with their sql.log and .table files
    held,            \* the open "with TempdirOrExistingDir(...)" blocks, innermost last
    migrators,       \* the drivers of the migrators built so far
    frame,           \* the locals of the running call: db_type, old_fields, new_fields, result
    outcome,         \* "running", or what the call returned or raised
    ip               \* the position in the call

diff_vars == <<call, fs, held, migrators, frame, outcome, ip>>

\* the output formatter (cli_support._handle_output) writing to one destination file
VARIABLES
    captured,        \* the contents of the captured output channel: a sequence of blocks
    dest,            \* the destination file: absent, or its header and migration functions
    today,           \* the date datetime.now() gives
    writes,          \* what each call of _handle_output appended to the file
    notes            \* what each call of _handle_output printed

out_vars == <<captured, dest, today, writes, notes>>

\* the code analysis and rewriting functions of magic.py applied to one piece of code
VARIABLES
    snippet,         \* the code handed to the function
    asked,           \* the function that was called and its to_remove argument
    answer           \* what it returned

analysis_vars == <<snippet, asked, answer>>

\* cli_support.core_alter before it hands over to handle_cli
VARIABLES
    source           \* the two file arguments of the call and what the disk and git hold for them

alter_vars == <<source>>

\* what handle_cli's own steps leave alone
other_vars == <<diff_vars, out_vars, analysis_vars, alter_vars>>

all_vars == <<vars, diff_vars, out_vars, analysis_vars, alter_vars>>

\* no generate_sql call is under way
DiffIdle ==
    /\ call = "idle"
    /\ fs = "idle"
    /\ held = <<>>
    /\ migrators = <<>>
    /\ frame = "idle"
    /\ outcome = "idle"
    /\ ip = "idle"

\* no destination file is being written
OutIdle ==
    /\ captured = <<>>
    /\ dest = "idle"
    /\ today = "idle"
    /\ writes = <<>>
    /\ notes = <<>>

\* no analysis function is being applied
AnalysisIdle ==
    /\ snippet = <<>>
    /\ asked = "idle"
    /\ answer = "idle"

\* no core_alter call is waiting for its files
AlterIdle == source = "idle"

magic_vars == {"_file", "DummyDAL", "_special_tables", "_uniq", "_excl"}

Tables == {"a", "b"}

BeforeStmts ==
    {TableStmt("a", ""), UseStmt("x"), DefStmt("define_tables", "a", 0), AssignStmt("db"),
     RelImportStmt("y")}

AfterStmts ==
    {TableStmt("a", ""), TableStmt("b", ""), TableStmt("a", "b"),
     UseStmt("x"), AssignStmt("x"),
     ImportStmt("m", 0), ImportStmt("m", 1), FromStmt("m", "x", 0),
     FromStmt("n", "x", 0), FromStmt("n", "x", 1),
     DefStmt("define_tables", "a", 0), DefStmt("define_tables", "", 0), DefStmt("define_tables", "a", 1),
     RaiseStmt("RecursionError"), RaiseStmt("KeyError"), RaiseStmt("ValueError")}

Requests ==
    [magic : BOOLEAN, noop : BOOLEAN, function_name : {{}, {"define_tables"}},
     tables : {<<>>, << <<"a">> >>}, db_type : {"sqlite", "", "magicdb"},
     output_format : {"default", "invalid"}]

\* a file argument of core_alter: whether the path exists, and the version asked for
\* ("latest" is a commit the repository has, "fake" one it does not have)
FileArgs == [exists : BOOLEAN, version : {"current", "latest", "fake"}]

\* the two file arguments and whether the working directory is inside a git repository
AlterCalls == [before : FileArgs, after : FileArgs, git_root : BOOLEAN]

\* handle_cli was called, by core_alter or directly
Direct == [handle_cli |-> TRUE]

\* get_absolute_path_info: the path exists, as it is or seen from the git root
get_absolute_path_info(f) == f.exists

\* get_file_for_version that reads the file on disk whatever version is asked for
get_file_for_version_current(f, with_git) == "read_text"

\* get_file_for_version: the file on disk without git or for "current", else the blob
\* of the commit; a commit git does not know raises FileNotFoundError
get_file_for_version(f, with_git) ==
    IF ~with_git \/ f.version = "current" THEN "read_text"
    ELSE IF f.version = "fake" THEN "FileNotFoundError"
    ELSE "read_blob"

\* at most one argument besides magic and function_name is off its usual value
Nominal(r) ==
    Cardinality({i \in 1..4 : <<r.noop, r.tables # <<>>, r.db_type # "sqlite",
                                r.output_format # "default">>[i]}) <= 1

Diag(kind, e, names) == [kind |-> kind, err |-> e, names |-> names]

Init ==
    /\ \/ /\ source = Direct
          /\ pc = "start"
          /\ args \in {r \in Requests : Nominal(r)}
       \/ /\ source \in AlterCalls
          /\ pc = "core_alter"
          /\ args = [magic |-> FALSE, noop |-> FALSE, function_name |-> {}, tables |-> <<>>,
                     db_type |-> "sqlite", output_format |-> "default"]
    /\ code_before \in SeqsUpTo(BeforeStmts, MaxStmts)
    /\ code_after \in SeqsUpTo(AfterStmts, MaxStmts - Len(code_before))
    /\ extra_code = <<>>
    /\ generated_code = <<>>
    /\ retry_counter = MAX_RETRIES
    /\ err = NoExc
    /\ catch = {}
    /\ special_tables = {}
    /\ file = <<>>
    /\ pending = NoExc
    /\ stderr = <<>>
    /\ output = <<>>
    /\ formatter_calls = 0
    /\ execs = 0
    /\ result = "running"
    /\ DiffIdle
    /\ OutIdle
    /\ AnalysisIdle

\* no handle_cli request is under way
CliIdle ==
    /\ args = [magic |-> FALSE, noop |-> FALSE, function_name |-> {}, tables |-> <<>>,
               db_type |-> "sqlite", output_format |-> "default"]
    /\ code_before = <<>>
    /\ code_after = <<>>
    /\ extra_code = <<>>
    /\ generated_code = <<>>
    /\ retry_counter = MAX_RETRIES
    /\ err = NoExc
    /\ catch = {}
    /\ special_tables = {}
    /\ file = <<>>
    /\ pending = NoExc
    /\ stderr = <<>>
    /\ output = <<>>
    /\ formatter_calls = 0
    /\ execs = 0
    /\ result = "idle"
    /\ pc = "idle"

Return(value) == result' = value /\ pc' = "done"

\* core_alter, lines 1009-1046: both paths must exist and both versions must be
\* readable; empty or identical code ends the call; else handle_cli takes over
CoreAlter ==
    /\ pc = "core_alter"
    /\ IF ~(get_absolute_path_info(source.before) /\ get_absolute_path_info(source.after))
       THEN /\ pending' = Exc("FileNotFoundError", "does not exist", "")
            /\ Return("raised")
            /\ UNCHANGED <<stderr, source>>
       ELSE IF "FileNotFoundError" \in {get_file_for_version(source.before, source.git_root),
                                        get_file_for_version(source.after, source.git_root)}
       THEN /\ pending' = Exc("FileNotFoundError", "filename@version", "")
            /\ Return("raised")
            /\ UNCHANGED <<stderr, source>>
       ELSE IF code_before = <<>> \/ code_after = <<>>
       THEN /\ stderr' = Append(stderr, Diag("code is empty", NoExc, {}))
            /\ Return("False")
            /\ UNCHANGED <<pending, source>>
       ELSE IF code_before = code_after
       THEN /\ stderr' = Append(stderr, Diag("Both contain the same code", NoExc, {}))
            /\ Return("False")
            /\ UNCHANGED <<pending, source>>
       ELSE /\ pc' = "start"
            /\ source' = Direct
            /\ UNCHANGED <<pending, stderr, result>>
    /\ UNCHANGED <<args, code_before, code_after, extra_code, generated_code, retry_counter, err, catch,
                   special_tables, file, output, formatter_calls, execs>>
    /\ UNCHANGED <<diff_vars, out_vars, analysis_vars>>

\* lines 694-731: sanitise both snippets, build the first scaffold, stop here on noop
Setup ==
    /\ pc = "start"
    /\ LET b == ensure_no_migrate_on_real_db(code_before, args.magic)
           a == ensure_no_migrate_on_real_db(code_after, args.magic)
       IN IF b.raises \/ a.raises
          THEN /\ pending' = Exc("ValueError", "defined in code or local imports", "")
               /\ Return("raised")
               /\ UNCHANGED <<code_before, code_after, generated_code, stderr>>
          ELSE /\ code_before' = b.code
               /\ code_after' = a.code
               /\ generated_code' = Template(b.code, a.code, <<>>)
               /\ pending' = NoExc
               /\ IF args.noop
                  THEN stderr' = Append(stderr, Diag("generated_code", NoExc, {})) /\ Return("True")
                  ELSE stderr' = stderr /\ pc' = "while" /\ result' = result
    /\ extra_code' = <<>>
    /\ UNCHANGED <<args, retry_counter, err, catch, special_tables, file, output, formatter_calls, execs>>
    /\ UNCHANGED other_vars

\* ExecEnv without catch["_special_tables"] = special_tables
ExecEnv_nospecial == [tables |-> flatten(args.tables), db_type |-> args.db_type, special |-> {}]

\* what the scaffold reads besides its own text: $tables, $db_type and _special_tables
ExecEnv == [tables |-> flatten(args.tables), db_type |-> args.db_type, special |-> special_tables]

\* Execute without "retry_counter -= 1"
Execute_nodecrement ==
    /\ pc = "while"
    /\ retry_counter # 0
    /\ LET run == exec(generated_code, catch, ExecEnv)
       IN /\ file' = run.file
          /\ catch' = run.scope
          /\ pending' = run.exc
          /\ pc' = ExceptClause(run.exc)
    /\ execs' = execs + 1
    /\ UNCHANGED <<args, code_before, code_after, extra_code, generated_code, err, special_tables,
                   stderr, output, formatter_calls, result, retry_counter>>
    /\ UNCHANGED other_vars

\* lines 734-753: one turn of the loop up to and including exec
Execute ==
    /\ pc = "while"
    /\ retry_counter # 0
    /\ LET run == exec(generated_code, catch, ExecEnv)
       IN /\ file' = run.file
          /\ catch' = run.scope
          /\ pending' = run.exc
          /\ pc' = ExceptClause(run.exc)
    /\ retry_counter' = retry_counter - 1
    /\ execs' = execs + 1
    /\ UNCHANGED <<args, code_before, code_after, extra_code, generated_code, err, special_tables,
                   stderr, output, formatter_calls, result>>
    /\ UNCHANGED other_vars

\* lines 754-755: the formatter; its ValueError for an unknown format is raised inside
\* the try statement and taken by the ValueError clause
HandleSuccess ==
    /\ pc = "ok"
    /\ formatter_calls' = formatter_calls + 1
    /\ IF args.output_format \in OutputFormats
       THEN /\ output' = output \o handle_output_default(file)
            /\ Return("True")
            /\ pending' = pending
       ELSE /\ pending' = Exc("ValueError", "Unknown format", args.output_format)
            /\ pc' = "ValueError"
            /\ UNCHANGED <<output, result>>
    /\ UNCHANGED <<args, code_before, code_after, extra_code, generated_code, retry_counter, err,
                   catch, special_tables, file, stderr, execs>>
    /\ UNCHANGED other_vars

\* the for loop of lines 763-769 over the candidate function names
RECURSIVE AddCalls(_, _)
AddCalls(code, names) ==
    IF names = {} THEN code
    ELSE LET f == CHOOSE n \in names : TRUE
             next == IF find_function_to_call(code, f) # "None"
                     THEN add_function_call(code, f, TRUE) ELSE code
         IN AddCalls(next, names \ {f})

\* lines 756-794
HandleValueError ==
    /\ pc = "ValueError"
    /\ IF pending # NoTablesFound
       THEN /\ stderr' = Append(stderr, Diag("error", pending, {}))
            /\ Return("False")
            /\ UNCHANGED generated_code
       ELSE IF \E f \in args.function_name : find_function_to_call(generated_code, f) # "None"
       THEN /\ generated_code' = AddCalls(generated_code, args.function_name)
            /\ pc' = "while"
            /\ UNCHANGED <<stderr, result>>
       ELSE /\ stderr' = Append(stderr, Diag("no-tables-found", NoExc, args.function_name))
            /\ Return("False")
            /\ UNCHANGED generated_code
    /\ UNCHANGED <<args, code_before, code_after, extra_code, retry_counter, err, catch,
                   special_tables, file, pending, output, formatter_calls, execs>>
    /\ UNCHANGED other_vars

\* lines 796-822
HandleNameError ==
    /\ pc = "NameError"
    /\ err' = pending
    /\ IF AnalysisFailsOn(generated_code) # {}
       THEN /\ pending' = Exc("ModuleNotFoundError", "No module named",
                              CHOOSE m \in AnalysisFailsOn(generated_code) : TRUE)
            /\ Return("raised")
            /\ UNCHANGED <<code_before, code_after, extra_code, generated_code, stderr>>
       ELSE LET missing_vars == find_missing_variables(generated_code) \ magic_vars
                extra == extra_code \o generate_magic_code(missing_vars)
                before == remove_if_falsey_blocks(code_before)
                after == remove_if_falsey_blocks(code_after)
            IN IF ~args.magic
               THEN /\ stderr' = Append(stderr, Diag("missing", NoExc, missing_vars))
                    /\ Return("False")
                    /\ UNCHANGED <<code_before, code_after, extra_code, generated_code, pending>>
               ELSE /\ extra_code' = extra
                    /\ code_before' = before
                    /\ code_after' = after
                    /\ generated_code' = Template(before, after, extra)
                    /\ pc' = "check"
                    /\ UNCHANGED <<stderr, pending, result>>
    /\ UNCHANGED <<args, retry_counter, catch, special_tables, file, output, formatter_calls, execs>>
    /\ UNCHANGED other_vars

\* ImportError.path: set when the module was found and the import failed inside it
HasPath(e) == e.msg = "cannot import name"

\* _handle_import_error: the line of the scaffold the traceback points at, that is
\* the first statement that fails to import from the module
_handle_import_error(code, e) ==
    code[CHOOSE i \in 1..Len(code) :
            /\ code[i].k = "from" /\ code[i].name = e.arg
            /\ \A j \in 1..(i - 1) : ~(code[j].k = "from" /\ code[j].name = e.arg)]

\* str.replace(to_remove, "\n"): every occurrence of the line becomes blank lines; a
\* line that was the body of a compound statement leaves the header without a body
replace(code, to_remove) ==
    LET spliced == [i \in 1..Len(code) |->
                      IF code[i] # to_remove THEN code[i]
                      ELSE IF code[i].lvl = 0 THEN Stmt("blank", "", "", 0) ELSE EmptyBlock]
    IN SelectSeq(spliced, LAMBDA s : s.k # "blank")

\* lines 823-844: an import that is literal in the code (e.path is None) is removed
\* from the syntax tree, an import that failed inside a module is cut out of the text
HandleImportError ==
    /\ pc = "ImportError"
    /\ err' = pending
    /\ LET to_remove == _handle_import_error(generated_code, pending)
           before == IF HasPath(pending) THEN replace(code_before, to_remove)
                     ELSE remove_import(code_before, pending.arg)
           after == IF HasPath(pending) THEN replace(code_after, to_remove)
                    ELSE remove_import(code_after, pending.arg)
       IN /\ code_before' = before
          /\ code_after' = after
          /\ generated_code' = Template(before, after, extra_code)
    /\ pc' = "check"
    /\ UNCHANGED <<args, extra_code, retry_counter, catch, special_tables, file, pending, stderr,
                   output, formatter_calls, execs, result>>
    /\ UNCHANGED other_vars

MISSING_RELATIONSHIP(e) == e.msg = "Cannot resolve reference"

\* _handle_relation_error: the table name and its placeholder definition
handle_relation_error(e) == [table_name |-> e.arg, table_definition |-> <<PlaceholderStmt(e.arg)>>]

\* HandleKeyError without "special_tables.add(table_name)"
HandleKeyError_noexclude ==
    /\ pc = "KeyError"
    /\ err' = pending
    /\ IF ~MISSING_RELATIONSHIP(pending)
       THEN /\ Return("raised")
            /\ UNCHANGED <<special_tables, extra_code, generated_code>>
       ELSE LET r == handle_relation_error(pending)
                extra == extra_code \o r.table_definition
            IN /\ special_tables' = special_tables
               /\ extra_code' = extra
               /\ generated_code' = Template(code_before, code_after, extra)
               /\ pc' = "check"
               /\ result' = result
    /\ UNCHANGED <<args, code_before, code_after, retry_counter, catch, file, pending, stderr,
                   output, formatter_calls, execs>>
    /\ UNCHANGED other_vars

\* HandleKeyError that gives up on a KeyError it cannot repair instead of re-raising it
HandleKeyError_swallow ==
    /\ pc = "KeyError"
    /\ err' = pending
    /\ IF ~MISSING_RELATIONSHIP(pending)
       THEN /\ retry_counter' = 0
            /\ pc' = "check"
            /\ UNCHANGED <<special_tables, extra_code, generated_code, result>>
       ELSE LET r == handle_relation_error(pending)
                extra == extra_code \o r.table_definition
            IN /\ special_tables' = special_tables \cup {r.table_name}
               /\ extra_code' = extra
               /\ generated_code' = Template(code_before, code_after, extra)
               /\ pc' = "check"
               /\ UNCHANGED <<result, retry_counter>>
    /\ UNCHANGED <<args, code_before, code_after, catch, file, pending, stderr,
                   output, formatter_calls, execs>>
    /\ UNCHANGED other_vars

\* HandleKeyError that starts extra_code afresh with the placeholder definition
HandleKeyError_reset ==
    /\ pc = "KeyError"
    /\ err' = pending
    /\ IF ~MISSING_RELATIONSHIP(pending)
       THEN /\ Return("raised")
            /\ UNCHANGED <<special_tables, extra_code, generated_code>>
       ELSE LET r == handle_relation_error(pending)
                extra == r.table_definition
            IN /\ special_tables' = special_tables \cup {r.table_name}
               /\ extra_code' = extra
               /\ generated_code' = Template(code_before, code_after, extra)
               /\ pc' = "check"
               /\ result' = result
    /\ UNCHANGED <<args, code_before, code_after, retry_counter, catch, file, pending, stderr,
                   output, formatter_calls, execs>>
    /\ UNCHANGED other_vars

\* lines 846-860
HandleKeyError ==
    /\ pc = "KeyError"
    /\ err' = pending
    /\ IF ~MISSING_RELATIONSHIP(pending)
       THEN /\ Return("raised")
            /\ UNCHANGED <<special_tables, extra_code, generated_code>>
       ELSE LET r == handle_relation_error(pending)
                extra == extra_code \o r.table_definition
            IN /\ special_tables' = special_tables \cup {r.table_name}
               /\ extra_code' = extra
               /\ generated_code' = Template(code_before, code_after, extra)
               /\ pc' = "check"
               /\ result' = result
    /\ UNCHANGED <<args, code_before, code_after, retry_counter, catch, file, pending, stderr,
                   output, formatter_calls, execs>>
    /\ UNCHANGED other_vars

\* HandleException that also hands the output channel to the formatter
HandleException_emit ==
    /\ pc = "Exception"
    /\ err' = pending
    /\ retry_counter' = 0
    /\ pc' = "check"
    /\ output' = output \o handle_output_default(file)
    /\ formatter_calls' = formatter_calls + 1
    /\ UNCHANGED <<args, code_before, code_after, extra_code, generated_code, catch, special_tables,
                   file, pending, stderr, execs, result>>
    /\ UNCHANGED other_vars

\* HandleException without "retry_counter = 0"
HandleException_noreset ==
    /\ pc = "Exception"
    /\ err' = pending
    /\ pc' = "check"
    /\ UNCHANGED <<args, code_before, code_after, extra_code, generated_code, catch, special_tables,
                   file, pending, stderr, output, formatter_calls, execs, result, retry_counter>>
    /\ UNCHANGED other_vars

\* lines 861-864
HandleException ==
    /\ pc = "Exception"
    /\ err' = pending
    /\ retry_counter' = 0
    /\ pc' = "check"
    /\ UNCHANGED <<args, code_before, code_after, extra_code, generated_code, catch, special_tables,
                   file, pending, stderr, output, formatter_calls, execs, result>>
    /\ UNCHANGED other_vars

\* lines 869-871
CheckBudget ==
    /\ pc = "check"
    /\ IF retry_counter < 1
       THEN stderr' = Append(stderr, Diag("could not be fixed", err, {})) /\ Return("False")
       ELSE pc' = "while" /\ UNCHANGED <<stderr, result>>
    /\ UNCHANGED <<args, code_before, code_after, extra_code, generated_code, retry_counter, err,
                   catch, special_tables, file, pending, output, formatter_calls, execs>>
    /\ UNCHANGED other_vars

\* line 874: the while condition is false
LoopExit ==
    /\ pc = "while"
    /\ retry_counter = 0
    /\ Return("False")
    /\ UNCHANGED <<args, code_before, code_after, extra_code, generated_code, retry_counter, err,
                   catch, special_tables, file, pending, stderr, output, formatter_calls, execs>>
    /\ UNCHANGED other_vars

Next ==
    \/ CoreAlter
    \/ Setup
    \/ Execute
    \/ HandleSuccess
    \/ HandleValueError
    \/ HandleNameError
    \/ HandleImportError
    \/ HandleKeyError
    \/ HandleException
    \/ CheckBudget
    \/ LoopExit

Spec == Init /\ [][Next]_all_vars

\* ------------------------------------------------------------------------
\* core.py: dialect names
\* ------------------------------------------------------------------------

\* a dialect name is a sequence of characters; <<>> stands for None and for ""
psycopg2 == <<"p", "s", "y", "c", "o", "p", "g", "2">>
sqlite3 == <<"s", "q", "l", "i", "t", "e", "3">>
pymysql == <<"p", "y", "m", "y", "s", "q", "l">>
postgresql == <<"p", "o", "s", "t", "g", "r", "e", "s", "q", "l">>
postgres == <<"p", "o", "s", "t", "g", "r", "e", "s">>
psql == <<"p", "s", "q", "l">>
sqlite == <<"s", "q", "l", "i", "t", "e">>
sqlite_memory == <<"s", "q", "l", "i", "t", "e", ":", "m", "e", "m", "o", "r", "y">>
mysql == <<"m", "y", "s", "q", "l">>

\* names a caller may pass that are not written in lower case, or not supported
PSQL == <<"P", "S", "Q", "L">>
SQLite == <<"S", "Q", "L", "i", "t", "e">>
MySql == <<"M", "y", "S", "q", "l">>
mssql == <<"m", "s", "s", "q", "l">>
magicdb == <<"m", "a", "g", "i", "c", "d", "b">>

\* str.lower() on the letters the modelled names hold
lower_char(c) ==
    CASE c = "P" -> "p"
      [] c = "S" -> "s"
      [] c = "Q" -> "q"
      [] c = "L" -> "l"
      [] c = "M" -> "m"
      [] OTHER -> c

\* str.lower() that leaves the name as it is
lower_asis(name) == name

lower(name) == [i \in 1..Len(name) |-> lower_char(name[i])]

\* aliases.get(driver_name, driver_name)
aliases_get(driver_name) ==
    CASE driver_name = postgresql -> psycopg2
      [] driver_name = postgres -> psycopg2
      [] driver_name = psql -> psycopg2
      [] driver_name = sqlite -> sqlite3
      [] driver_name = sqlite_memory -> sqlite3
      [] driver_name = mysql -> pymysql
      [] OTHER -> driver_name

SUPPORTED_DATABASE_TYPES == {psycopg2, sqlite3, pymysql}

\* the driver _build_dummy_migrator builds a migrator for; <<>> when it raises ValueError
driver_of(_driver_name) ==
    LET driver_name == aliases_get(lower(_driver_name))
    IN IF driver_name \in SUPPORTED_DATABASE_TYPES THEN driver_name ELSE <<>>

\* ------------------------------------------------------------------------
\* helpers.py: TempdirOrExistingDir, on a file system of folders
\* ------------------------------------------------------------------------

\* db_folder = None
NoFolder == "None"

\* the folder a caller may supply, and the names tempfile gives out in turn
CallerFolder == "caller"

TmpNames == <<"tmp1", "tmp2">>

Folders == {CallerFolder} \cup {TmpNames[i] : i \in 1..Len(TmpNames)}

\* one line of sql.log: how it begins, what it is about, and which call wrote it
LogLine(prefix, text, by) == [prefix |-> prefix, text |-> text, by |-> by]

\* no folder but the caller's exists; it has no table file; its sql.log is absent or left over
EmptyFs(stale) ==
    [dirs |-> {CallerFolder},
     haslog |-> IF stale THEN {CallerFolder} ELSE {},
     log |-> [d \in Folders |->
                IF stale /\ d = CallerFolder
                THEN <<LogLine("timestamp:", "earlier", "before the call"),
                       LogLine("ALTER", "earlier", "before the call"),
                       LogLine("success!", "earlier", "before the call")>>
                ELSE <<>>],
     tables |-> [d \in Folders |-> <<>>],
     made |-> 0]

\* tempfile.TemporaryDirectory(): a new, empty folder under the next unused name
MakeTemp(f) ==
    LET d == TmpNames[f.made + 1]
    IN [f EXCEPT !.dirs = @ \cup {d}, !.made = @ + 1]

\* TemporaryDirectory cleanup: the folder and all it holds are gone
RemoveDir(f, d) ==
    [f EXCEPT !.dirs = @ \ {d},
              !.haslog = @ \ {d},
              !.log = [@ EXCEPT ![d] = <<>>],
              !.tables = [@ EXCEPT ![d] = <<>>]]

\* leaving one with-block that forgets the cleanup
Leave_keep(f, entry) == f

\* leaving one with-block of TempdirOrExistingDir
Leave(f, entry) == IF entry.tmp THEN RemoveDir(f, entry.dir) ELSE f

\* an exception leaves every open with-block, innermost first
RECURSIVE Unwind(_, _)
Unwind(f, stack) ==
    IF stack = <<>> THEN f
    ELSE Unwind(Leave(f, stack[Len(stack)]), SubSeq(stack, 1, Len(stack) - 1))

\* append lines to the sql.log of folder d, creating the file
AppendLog(f, d, lines) ==
    [f EXCEPT !.haslog = @ \cup {d}, !.log = [@ EXCEPT ![d] = @ \o lines]]

\* a path value: None, a str or a pathlib.Path
PathValue(type, name) == [type |-> type, name |-> name]

\* what the context manager yields for folder_path on file system f
Yielded(folder_path, f) ==
    IF folder_path.type = "NoneType" THEN PathValue("str", TmpNames[f.made + 1])
    ELSE IF folder_path.type = "Path" THEN PathValue("str", folder_path.name)
    ELSE folder_path

\* ------------------------------------------------------------------------
\* pydal's Migrator, as core.py calls it
\* ------------------------------------------------------------------------

\* the fields a table may have, in definition order; "absent" is a field the table lacks
field_order == <<"f", "g">>

\* the queries migrate_table issues for one field, by how each begins
Queries(driver, new, old) ==
    IF old = "absent" /\ new # "absent" THEN <<"ALTER">>
    ELSE IF driver = sqlite3 THEN <<>>
    ELSE IF new = "absent" /\ old # "absent" THEN <<"ALTER">>
    ELSE IF new # old THEN <<"ALTER", "UPDATE", "ALTER", "ALTER", "UPDATE", "ALTER">>
    ELSE <<>>

\* each query is logged and, with fake_migrate, followed by "faked!"
RECURSIVE Faked(_, _, _)
Faked(queries, key, by) ==
    IF queries = <<>> THEN <<>>
    ELSE <<LogLine(queries[1], key, by), LogLine("faked!", key, by)>>
         \o Faked(Tail(queries), key, by)

\* what migrate_table appends to sql.log for the fields from position i on
RECURSIVE MigrateLog(_, _, _, _, _)
MigrateLog(driver, sql_fields, sql_fields_old, by, i) ==
    IF i > Len(field_order) THEN <<>>
    ELSE LET key == field_order[i]
             queries == Queries(driver, sql_fields[key], sql_fields_old[key])
         IN (IF queries = <<>> THEN <<>>
             ELSE <<LogLine("timestamp:", key, by)>> \o Faked(queries, key, by))
            \o MigrateLog(driver, sql_fields, sql_fields_old, by, i + 1)

\* what create_table appends to sql.log when it writes the table file
CreateLog(by) ==
    <<LogLine("timestamp:", "table", by), LogLine("CREATE", "table", by),
      LogLine("faked!", "table", by)>>

\* line.startswith(("ALTER", "UPDATE"))
startswith_alter_update(line) == line.prefix \in {"ALTER", "UPDATE"}

\* a filter that lets every line through
startswith_anything(line) == TRUE

\* ------------------------------------------------------------------------
\* core.py: generate_sql, one action per step
\* ------------------------------------------------------------------------

NoFields == [f |-> "absent", g |-> "absent"]

FieldSets ==
    {[f |-> "string", g |-> "absent"], [f |-> "integer", g |-> "absent"],
     [f |-> "string", g |-> "string"], [f |-> "absent", g |-> "string"]}

\* define_table._db._dbname: None, or the scheme of the connection string
DbNames == {<<>>, sqlite, postgres}

Snapshots == [fields : FieldSets, dbname : DbNames]

\* the db_type argument
DbTypes == {<<>>, psql, PSQL, postgresql, sqlite, SQLite, sqlite3, mysql, MySql, mssql, magicdb}

\* the db_folder argument
DbFolders ==
    {PathValue("NoneType", NoFolder), PathValue("str", CallerFolder),
     PathValue("Path", CallerFolder)}

\* the with-block the running step is in
Top == held[Len(held)]

\* the step after ip
NextIp ==
    CASE ip = "create:enter" -> "create:build"
      [] ip = "create:build" -> "create:compile"
      [] ip = "create:compile" -> "create:exit"
      [] ip = "create:exit" -> "return"
      [] ip = "old:enter" -> "old:build"
      [] ip = "old:build" -> "old:create"
      [] ip = "old:create" -> "old:load"
      [] ip = "old:load" -> "old:exit"
      [] ip = "old:exit" -> "alter:enter"
      [] ip = "alter:enter" -> "new:enter"
      [] ip = "new:enter" -> "new:build"
      [] ip = "new:build" -> "new:create"
      [] ip = "new:create" -> "new:load"
      [] ip = "new:load" -> "new:exit"
      [] ip = "new:exit" -> "alter:build"
      [] ip = "alter:build" -> "alter:unlink"
      [] ip = "alter:unlink" -> "alter:swap"
      [] ip = "alter:swap" -> "alter:migrate"
      [] ip = "alter:migrate" -> "alter:collect"
      [] ip = "alter:collect" -> "alter:finally"
      [] ip = "alter:finally" -> "alter:exit"
      [] ip = "alter:exit" -> "return"

\* an exception of class cls leaves generate_sql through every open with-block
Raise(cls) ==
    /\ outcome' = [kind |-> "raised", value |-> cls]
    /\ fs' = Unwind(fs, held)
    /\ held' = <<>>
    /\ ip' = "done"

\* the database object a Table's _db attribute points at: the caller's database of
\* the old or of the new table, or the db of a dummy migrator
TableDb(of, dbname) == [of |-> of, dbname |-> dbname]

\* a finally clause that leaves both tables pointing at the migrator's database
RestoreDb_keep(f) == f

\* the finally clause: define_table_new._db = original_db_new, then the same for old
RestoreDb(f) == [f EXCEPT !.new_db = f.original_db_new, !.old_db = f.original_db_old]

DiffInit ==
    /\ \E mode \in {"create", "alter"}, old \in Snapshots, new \in Snapshots,
          db_type \in DbTypes, db_folder \in DbFolders, stale \in BOOLEAN :
          /\ mode = "create" => new = old
          /\ db_folder.type = "NoneType" => ~stale
          /\ call = [mode |-> mode, old |-> old, new |-> new, db_type |-> db_type,
                     db_folder |-> db_folder, fs |-> EmptyFs(stale)]
          /\ fs = EmptyFs(stale)
          /\ frame = [db_type |-> db_type, db_folder |-> db_folder,
                      old_fields |-> NoFields, new_fields |-> NoFields,
                      result |-> <<>>, logged |-> <<>>,
                      old_db |-> TableDb("define_table_old", old.dbname),
                      new_db |-> TableDb("define_table_new", new.dbname),
                      original_db_old |-> TableDb("unset", <<>>),
                      original_db_new |-> TableDb("unset", <<>>)]
    /\ held = <<>>
    /\ migrators = <<>>
    /\ outcome = [kind |-> "running", value |-> <<>>]
    /\ ip = "generate_sql"
    /\ CliIdle
    /\ OutIdle
    /\ AnalysisIdle
    /\ AlterIdle

\* generate_sql: alter statements when a second table is given, else create statements
Dispatch ==
    /\ ip = "generate_sql"
    /\ ip' = IF call.mode = "alter" THEN "alter:resolve" ELSE "create:resolve"
    /\ UNCHANGED <<call, fs, held, migrators, frame, outcome>>
    /\ UNCHANGED <<vars, out_vars, analysis_vars, alter_vars>>

\* generate_create_statement: the dialect of the one table
Resolve_create ==
    /\ ip = "create:resolve"
    /\ LET db_type == IF frame.db_type = <<>> THEN call.old.dbname ELSE frame.db_type
       IN IF db_type = <<>>
          THEN Raise("ValueError") /\ UNCHANGED frame
          ELSE /\ frame' = [frame EXCEPT !.db_type = db_type]
               /\ ip' = "create:enter"
               /\ UNCHANGED <<fs, held, outcome>>
    /\ UNCHANGED <<call, migrators>>
    /\ UNCHANGED <<vars, out_vars, analysis_vars, alter_vars>>

\* the dialect of the new table, asked before the old one
Resolve_newfirst ==
    /\ ip = "alter:resolve"
    /\ LET guess == IF call.new.dbname # <<>> THEN call.new.dbname ELSE call.old.dbname
           db_type == IF frame.db_type = <<>> THEN guess ELSE frame.db_type
       IN IF db_type = <<>>
          THEN Raise("ValueError") /\ UNCHANGED frame
          ELSE /\ frame' = [frame EXCEPT !.db_type = db_type]
               /\ ip' = "old:enter"
               /\ UNCHANGED <<fs, held, outcome>>
    /\ UNCHANGED <<call, migrators>>
    /\ UNCHANGED <<vars, out_vars, analysis_vars, alter_vars>>

\* generate_alter_statement: the dialect of the old table, or else of the new one
Resolve_alter ==
    /\ ip = "alter:resolve"
    /\ LET guess == IF call.old.dbname # <<>> THEN call.old.dbname ELSE call.new.dbname
           db_type == IF frame.db_type = <<>> THEN guess ELSE frame.db_type
       IN IF db_type = <<>>
          THEN Raise("ValueError") /\ UNCHANGED frame
          ELSE /\ frame' = [frame EXCEPT !.db_type = db_type]
               /\ ip' = "old:enter"
               /\ UNCHANGED <<fs, held, outcome>>
    /\ UNCHANGED <<call, migrators>>
    /\ UNCHANGED <<vars, out_vars, analysis_vars, alter_vars>>

\* with TempdirOrExistingDir(db_folder) as db_folder
EnterDir ==
    /\ ip \in {"create:enter", "old:enter", "alter:enter", "new:enter"}
    /\ LET folder_path == IF ip = "old:enter" THEN PathValue("NoneType", NoFolder)
                          ELSE frame.db_folder
           tmp == folder_path.type = "NoneType"
           db_folder == Yielded(folder_path, fs)
       IN /\ fs' = IF tmp THEN MakeTemp(fs) ELSE fs
          /\ held' = Append(held, [dir |-> db_folder.name, tmp |-> tmp])
          /\ frame' = IF ip \in {"create:enter", "alter:enter"}
                      THEN [frame EXCEPT !.db_folder = db_folder] ELSE frame
    /\ ip' = NextIp
    /\ UNCHANGED <<call, migrators, outcome>>
    /\ UNCHANGED <<vars, out_vars, analysis_vars, alter_vars>>

\* _build_dummy_migrator(db_type, db_folder=db_folder)
BuildMigrator ==
    /\ ip \in {"create:build", "old:build", "new:build", "alter:build"}
    /\ LET driver_name == driver_of(frame.db_type)
       IN IF driver_name = <<>>
          THEN Raise("ValueError") /\ UNCHANGED migrators
          ELSE /\ migrators' = Append(migrators, [driver |-> driver_name, folder |-> Top.dir])
               /\ ip' = NextIp
               /\ UNCHANGED <<fs, held, outcome>>
    /\ UNCHANGED <<call, frame>>
    /\ UNCHANGED <<vars, out_vars, analysis_vars, alter_vars>>

\* migrator.create_table(define_table, migrate=..., fake_migrate=True)
CreateTable ==
    /\ ip \in {"create:compile", "old:create", "new:create"}
    /\ LET the_table == IF ip = "new:create" THEN call.new ELSE call.old
       IN IF ip = "create:compile"
          THEN /\ frame' = [frame EXCEPT !.result = <<LogLine("CREATE", "table", "create_table")>>]
               /\ fs' = fs
          ELSE /\ fs' = [AppendLog(fs, Top.dir, CreateLog("create_table"))
                            EXCEPT !.tables = [@ EXCEPT ![Top.dir] = <<the_table.fields>>]]
               /\ frame' = frame
    /\ ip' = NextIp
    /\ UNCHANGED <<call, held, migrators, outcome>>
    /\ UNCHANGED <<vars, out_vars, analysis_vars, alter_vars>>

\* pickle.load of the table file in db_folder
LoadFields ==
    /\ ip \in {"old:load", "new:load"}
    /\ IF fs.tables[Top.dir] = <<>>
       THEN Raise("FileNotFoundError") /\ UNCHANGED frame
       ELSE /\ frame' = IF ip = "old:load"
                        THEN [frame EXCEPT !.old_fields = fs.tables[Top.dir][1]]
                        ELSE [frame EXCEPT !.new_fields = fs.tables[Top.dir][1]]
            /\ ip' = NextIp
            /\ UNCHANGED <<fs, held, outcome>>
    /\ UNCHANGED <<call, migrators>>
    /\ UNCHANGED <<vars, out_vars, analysis_vars, alter_vars>>

\* the end of a with-block
ExitDir ==
    /\ ip \in {"create:exit", "old:exit", "new:exit", "alter:exit"}
    /\ fs' = Leave(fs, Top)
    /\ held' = SubSeq(held, 1, Len(held) - 1)
    /\ ip' = NextIp
    /\ UNCHANGED <<call, migrators, frame, outcome>>
    /\ UNCHANGED <<vars, out_vars, analysis_vars, alter_vars>>

\* a step that leaves sql.log where it is
UnlinkLog_skip ==
    /\ ip = "alter:unlink"
    /\ ip' = NextIp
    /\ UNCHANGED <<call, fs, held, migrators, frame, outcome>>
    /\ UNCHANGED <<vars, out_vars, analysis_vars, alter_vars>>

\* sql_log.unlink(missing_ok=True)
UnlinkLog ==
    /\ ip = "alter:unlink"
    /\ fs' = [fs EXCEPT !.haslog = @ \ {frame.db_folder.name},
                        !.log = [@ EXCEPT ![frame.db_folder.name] = <<>>]]
    /\ ip' = NextIp
    /\ UNCHANGED <<call, held, migrators, frame, outcome>>
    /\ UNCHANGED <<vars, out_vars, analysis_vars, alter_vars>>

\* original_db_old / original_db_new are saved, then both tables are pointed at
\* migrator.db
SwapDb ==
    /\ ip = "alter:swap"
    /\ LET migrator == migrators[Len(migrators)]
       IN frame' = [frame EXCEPT !.original_db_old = frame.old_db,
                                 !.original_db_new = frame.new_db,
                                 !.old_db = TableDb("migrator", migrator.driver),
                                 !.new_db = TableDb("migrator", migrator.driver)]
    /\ ip' = NextIp
    /\ UNCHANGED <<call, fs, held, migrators, outcome>>
    /\ UNCHANGED <<vars, out_vars, analysis_vars, alter_vars>>

\* migrator.migrate_table(define_table_new, new_fields, old_fields, new_fields, ...);
\* with fields to migrate it writes to sql.log and to the table file and can fail
\* doing so; an exception it raises passes the finally clause on its way out of
\* generate_sql
MigrateTable ==
    /\ ip = "alter:migrate"
    /\ \E raises \in (IF frame.new_fields = frame.old_fields THEN {FALSE} ELSE BOOLEAN) :
          IF raises
          THEN /\ frame' = RestoreDb(frame)
               /\ Raise("Exception")
          ELSE LET migrator == migrators[Len(migrators)]
                   lines == MigrateLog(migrator.driver, frame.new_fields, frame.old_fields,
                                       "migrate_table", 1)
               IN /\ fs' = IF lines = <<>> THEN fs ELSE AppendLog(fs, migrator.folder, lines)
                  /\ frame' = [frame EXCEPT !.logged = lines]
                  /\ ip' = NextIp
                  /\ UNCHANGED <<held, outcome>>
    /\ UNCHANGED <<call, migrators>>
    /\ UNCHANGED <<vars, out_vars, analysis_vars, alter_vars>>

\* the finally clause on the way to the end of the with-block, after the log was
\* read or found missing
Finally ==
    /\ ip = "alter:finally"
    /\ frame' = RestoreDb(frame)
    /\ ip' = NextIp
    /\ UNCHANGED <<call, fs, held, migrators, outcome>>
    /\ UNCHANGED <<vars, out_vars, analysis_vars, alter_vars>>

\* the whole of sql.log, unfiltered
CollectLog_unfiltered ==
    /\ ip = "alter:collect"
    /\ frame' = [frame EXCEPT !.result =
                    IF frame.db_folder.name \in fs.haslog
                    THEN SelectSeq(fs.log[frame.db_folder.name], startswith_anything)
                    ELSE <<>>]
    /\ ip' = NextIp
    /\ UNCHANGED <<call, fs, held, migrators, outcome>>
    /\ UNCHANGED <<vars, out_vars, analysis_vars, alter_vars>>

\* the lines of sql.log that pass the filter, in file order; "" when there is no sql.log
CollectLog ==
    /\ ip = "alter:collect"
    /\ frame' = [frame EXCEPT !.result =
                    IF frame.db_folder.name \in fs.haslog
                    THEN SelectSeq(fs.log[frame.db_folder.name], startswith_alter_update)
                    ELSE <<>>]
    /\ ip' = NextIp
    /\ UNCHANGED <<call, fs, held, migrators, outcome>>
    /\ UNCHANGED <<vars, out_vars, analysis_vars, alter_vars>>

\* return result
ReturnResult ==
    /\ ip = "return"
    /\ outcome' = [kind |-> "returned", value |-> frame.result]
    /\ ip' = "done"
    /\ UNCHANGED <<call, fs, held, migrators, frame>>
    /\ UNCHANGED <<vars, out_vars, analysis_vars, alter_vars>>

DiffNext ==
    \/ Dispatch
    \/ Resolve_create
    \/ Resolve_alter
    \/ EnterDir
    \/ BuildMigrator
    \/ CreateTable
    \/ LoadFields
    \/ ExitDir
    \/ UnlinkLog
    \/ SwapDb
    \/ MigrateTable
    \/ Finally
    \/ CollectLog
    \/ ReturnResult

DiffSpec == DiffInit /\ [][DiffNext]_all_vars

\* ------------------------------------------------------------------------
\* cli_support.py: _handle_output to a file
\* ------------------------------------------------------------------------

\* calls of _handle_output in one behaviour, and migrations in one captured output
MaxCalls == 3

MaxBlocks == 2

\* for n in range(1, 1000)
LAST_NUMBER == 999

\* one SQL statement: its verb, its table, and its text
SqlStmt(verb, tbl, text) == [verb |-> verb, tbl |-> tbl, text |-> text]

\* a line of text, without its spaces and newlines
TextLine(kind, name, date, n, sql) ==
    [kind |-> kind, name |-> name, date |-> date, n |-> n, sql |-> sql]

\* "from edwh_migrate import migration" and the DAL import
ImportLine == TextLine("import", <<"", "">>, "", 0, "")

\* "-- start <table> --"
StartLine(tbl) == TextLine("start", <<"", tbl>>, "", 0, "")

\* "def <sql_func_name>_<date>_<nnn>(db: DAL):", after "@migration"
DefLine(name, date, n) == TextLine("def", name, date, n, "")

\* one statement inside db.executesql
SqlLine(stmt) == TextLine("sql", <<"", "">>, "", 0, stmt.text)

\* "db.commit()" and "return True"
EndLine == TextLine("end", <<"", "">>, "", 0, "")

SqlLines(stmts) == [i \in 1..Len(stmts) |-> SqlLine(stmts[i])]

\* what was printed for one table: the start marker and the statements
MigrationBlock(tbl, stmts) == [tbl |-> tbl, stmts |-> stmts]

\* the first CREATE|ALTER|DROP TABLE of the text, lower case; else "unknown_migration"
RECURSIVE sql_to_function_name(_)
sql_to_function_name(stmts) ==
    IF stmts = <<>> THEN <<"unknown_migration", "">>
    ELSE IF stmts[1].verb = "CREATE" THEN <<"create", stmts[1].tbl>>
    ELSE IF stmts[1].verb = "ALTER" THEN <<"alter", stmts[1].tbl>>
    ELSE IF stmts[1].verb = "DROP" THEN <<"drop", stmts[1].tbl>>
    ELSE sql_to_function_name(Tail(stmts))

\* needle in haystack, for texts as sequences of lines
IsInfix(needle, haystack) ==
    \E i \in 0..(Len(haystack) - Len(needle)) :
        \A j \in 1..Len(needle) : haystack[i + j] = needle[j]

\* a check that finds no function name in the file
Defined_never(name, date, n, existing) == FALSE

\* f"def {func_name}" in existing
Defined(name, date, n, existing) ==
    \E i \in 1..Len(existing) : existing[i] = DefLine(name, date, n)

\* a loop that never moves on to the next number
pick_number_nobump(name, date, stmts, existing, n) ==
    IF existing # <<>> /\ Defined(name, date, n, existing) THEN <<"skip", n>> ELSE <<"use", n>>

\* the for loop of _build_edwh_migration from number n on: <<"skip">>, or
\* <<"use", number>> for the function name to write
RECURSIVE pick_number(_, _, _, _, _)
pick_number(name, date, stmts, existing, n) ==
    IF existing # <<>> /\ Defined(name, date, n, existing)
    THEN IF IsInfix(SqlLines(stmts), existing) THEN <<"skip", n>>
         ELSE IF name[1] = "alter"
              THEN IF n = LAST_NUMBER THEN <<"use", n>>
                   ELSE pick_number(name, date, stmts, existing, n + 1)
              ELSE <<"skip", n>>
    ELSE <<"use", n>>

_build_edwh_migration(block, date, existing) ==
    LET name == sql_to_function_name(block.stmts)
        picked == pick_number(name, date, block.stmts, existing, 1)
    IN IF picked[1] = "skip" THEN <<>>
       ELSE IF block.stmts = <<>> THEN <<>>
       ELSE <<DefLine(name, date, picked[2])>> \o SqlLines(block.stmts) \o <<EndLine>>

RECURSIVE _build_edwh_migrations(_, _, _)
_build_edwh_migrations(blocks, date, existing) ==
    IF blocks = <<>> THEN <<>>
    ELSE _build_edwh_migration(blocks[1], date, existing)
         \o _build_edwh_migrations(Tail(blocks), date, existing)

\* "\n".join(contents.split("-- END OF MIGRATION --"))
RECURSIVE default_format(_)
default_format(blocks) ==
    IF blocks = <<>> THEN <<>>
    ELSE <<StartLine(blocks[1].tbl)>> \o SqlLines(blocks[1].stmts)
         \o default_format(Tail(blocks))

\* the blocks a snippet run can print: a create, two different diffs of one
\* table, the empty diff, and a drop
MigrationBlocks ==
    {MigrationBlock("a", <<SqlStmt("CREATE", "a", "CREATE TABLE a(f)")>>),
     MigrationBlock("a", <<SqlStmt("ALTER", "a", "ALTER TABLE a ADD g")>>),
     MigrationBlock("a", <<SqlStmt("ALTER", "a", "ALTER TABLE a ADD g"),
                           SqlStmt("UPDATE", "a", "UPDATE a SET g")>>),
     MigrationBlock("a", <<>>),
     MigrationBlock("b", <<SqlStmt("DROP", "b", "DROP TABLE b")>>)}

\* datetime.now().strftime("%Y%m%d") on two consecutive days
Dates == <<"20240101", "20240102">>

\* a destination file: missing, empty, or holding migrations written earlier
MissingFile == [exists |-> FALSE, text |-> <<>>]

EmptyFile == [exists |-> TRUE, text |-> <<>>]

OlderFiles ==
    {[exists |-> TRUE,
      text |-> <<ImportLine, DefLine(<<"alter", "a">>, Dates[1], 1),
                 SqlLine(SqlStmt("ALTER", "a", "ALTER TABLE a DROP h")), EndLine>>],
     [exists |-> TRUE,
      text |-> <<ImportLine, DefLine(<<"create", "a">>, Dates[1], 1),
                 SqlLine(SqlStmt("CREATE", "a", "CREATE TABLE a(h)")), EndLine>>]}

OutInit ==
    /\ captured \in UNION {[1..k -> MigrationBlocks] : k \in 0..MaxBlocks}
    /\ dest \in {MissingFile, EmptyFile} \cup OlderFiles
    /\ today = Dates[1]
    /\ writes = <<>>
    /\ notes = <<>>
    /\ CliIdle
    /\ DiffIdle
    /\ AnalysisIdle
    /\ AlterIdle

\* _handle_output(file, output_file: Path, output_format), as one call
HandleOutput(output_format) ==
    /\ Len(writes) < MaxCalls
    /\ LET existing == IF dest.exists THEN dest.text ELSE <<>>
           contents == IF output_format = "edwh-migrate"
                       THEN _build_edwh_migrations(captured, today, existing)
                       ELSE default_format(captured)
           setup == output_format = "edwh-migrate" /\ (~dest.exists \/ dest.text = <<>>)
           opened == IF setup THEN <<ImportLine>> ELSE dest.text
           created == setup \/ contents # <<>> \/ dest.exists
           after == [exists |-> created, text |-> opened \o contents]
       IN /\ dest' = after
          /\ writes' = Append(writes, [output_format |-> output_format, date |-> today,
                                       before |-> dest, after |-> after])
          /\ notes' = Append(notes, (IF setup THEN <<"New migrate file created">> ELSE <<>>)
                                    \o (IF contents # <<>> THEN <<"Written migration(s)">>
                                        ELSE <<"Nothing to write">>))
    /\ UNCHANGED <<captured, today>>
    /\ UNCHANGED <<vars, diff_vars, analysis_vars, alter_vars>>

\* midnight passes between two calls
NextDay ==
    /\ today = Dates[1]
    /\ today' = Dates[2]
    /\ UNCHANGED <<captured, dest, writes, notes>>
    /\ UNCHANGED <<vars, diff_vars, analysis_vars, alter_vars>>

OutNext ==
    \/ \E output_format \in {"edwh-migrate", "default"} : HandleOutput(output_format)
    \/ NextDay

OutSpec == OutInit /\ [][OutNext]_all_vars

\* ------------------------------------------------------------------------
\* magic.py: the analysis and rewriting functions on their own
\* ------------------------------------------------------------------------

\* statements of the code handed to the function
MaxSnippet == 3

AnalysisStmts ==
    {AssignStmt("x"), UseStmt("x"), DelStmt("x"), ForStmt("x"), UseStmt("print"),
     ImportStmt("json", 0), ImportAsStmt("json", "j"), FromStmt("os", "j", 0), UseStmt("j"),
     AssignStmt("db"), DefStmt("db", "", 0), ClassStmt("database"), AssignStmt("my_database"),
     DefStmt("define_tables", "", 0)}

Asked(function, to_remove) == [function |-> function, to_remove |-> to_remove]

AnalysisInit ==
    /\ snippet \in SeqsUpTo(AnalysisStmts, MaxSnippet)
    /\ asked = Asked("nothing", {})
    /\ answer = "none"
    /\ CliIdle
    /\ DiffIdle
    /\ OutIdle
    /\ AlterIdle

\* magic.py 277-279
FindMissingVariables ==
    /\ asked.function = "nothing"
    /\ asked' = Asked("find_missing_variables", {})
    /\ answer' = find_missing_variables(snippet)
    /\ UNCHANGED <<snippet, vars, diff_vars, out_vars, alter_vars>>

\* magic.py 40-77
RemoveSpecificVariables(to_remove) ==
    /\ asked.function = "nothing"
    /\ asked' = Asked("remove_specific_variables", to_remove)
    /\ answer' = remove_specific_variables(snippet, to_remove)
    /\ UNCHANGED <<snippet, vars, diff_vars, out_vars, alter_vars>>

AnalysisNext ==
    \/ FindMissingVariables
    \/ \E to_remove \in {db_names, {"db"}} : RemoveSpecificVariables(to_remove)

AnalysisSpec == AnalysisInit /\ [][AnalysisNext]_all_vars

\* ------------------------------------------------------------------------
\* Claims
\* ------------------------------------------------------------------------

Last(seq) == seq[Len(seq)]

\* the counter never goes up, and a step that executes the scaffold takes exactly one off
C1_CounterSteps ==
    /\ retry_counter' <= retry_counter
    /\ execs' # execs =>
         /\ retry_counter > 0
         /\ retry_counter' = retry_counter - 1
         /\ execs' = execs + 1

PcValues ==
    {"core_alter", "start", "while", "ok", "ValueError", "NameError", "ImportError", "KeyError", "Exception",
     "check", "done"}

\* a measure every step of handle_cli makes strictly smaller
C1_Variant ==
    IF pc = "done" THEN 0
    ELSE 4 * retry_counter +
         (CASE pc = "while" -> 1
            [] pc = "check" -> 2
            [] pc = "ok" -> 4
            [] pc = "start" -> 5
            [] pc = "core_alter" -> 6
            [] OTHER -> 3)

\* C1: the retry counter starts at MAX_RETRIES, goes down by exactly one with every
\* execution of the scaffold and never goes up, no execution happens at zero, so the
\* scaffold is executed at most MAX_RETRIES times; handle_cli terminates because every
\* step makes C1_Variant smaller.
C1_BoundedRetry ==
    /\ [](/\ retry_counter \in 0..MAX_RETRIES
          /\ execs + retry_counter <= MAX_RETRIES
          /\ (execs = 0 => retry_counter = MAX_RETRIES)
          /\ pc \in PcValues
          /\ C1_Variant >= 0)
    /\ [][C1_CounterSteps /\ C1_Variant' < C1_Variant]_vars

C1_Witness == pc = "done" /\ execs = MAX_RETRIES /\ retry_counter = 0 /\ result = "False"

\* the positions of the import statements of module m, at any depth
ImportsOf(code, m) ==
    {i \in 1..Len(code) : code[i].k \in {"import", "from"} /\ code[i].name = m}

\* the positions of the definitions of function f, at any depth
DefsOf(code, f) == {i \in 1..Len(code) : code[i].k = "def" /\ code[i].name = f}

\* the step that returns after the last permitted execution has failed
C2_GivesUp == pc \in {"while", "check"} /\ pc' = "done" /\ execs = MAX_RETRIES

\* C2: when handle_cli gives up because the retry budget is used up (it returns False
\* after the last permitted execution failed), stderr holds a diagnostic with the text
\* of the last error observed.
C2_ExhaustionReportsLastError ==
    [][C2_GivesUp =>
         /\ pending # NoExc
         /\ \E i \in 1..Len(stderr') : stderr'[i].err = pending]_vars

\* C3: with noop off, True is returned only after one execution that did not raise and
\* a formatter that accepted its output; the formatter gets exactly what that execution
\* wrote, is called at most once, and never when the last execution failed.
C3_OnlySuccessIsEmitted ==
    /\ formatter_calls <= 1
    /\ (result = "True" /\ ~args.noop) =>
         /\ formatter_calls = 1
         /\ pending = NoExc
         /\ args.output_format \in OutputFormats
         /\ LET run == exec(generated_code, catch, ExecEnv)
            IN run.exc = NoExc /\ file = run.file
         /\ output = handle_output_default(file)
    /\ result # "True" => output = <<>>
    /\ (pc = "done" /\ result # "True" /\ pending.msg # "Unknown format") => formatter_calls = 0

C3_Witness == result = "True" /\ ~args.noop /\ execs > 1 /\ output # <<>>

\* C4: with magic off, the first NameError ends the request: the missing names are
\* reported on stderr, False is returned, nothing is executed again, the snippets and
\* the extra code stay as they are and nothing is written to the destination.
C4_NoMagicNameErrorIsFatal ==
    [][(pc = "NameError" /\ ~args.magic) =>
         /\ pc' = "done"
         /\ result' = "False"
         /\ \E i \in 1..Len(stderr') : stderr'[i].kind = "missing"
         /\ UNCHANGED <<code_before, code_after, extra_code, output, execs>>]_vars

\* the step that repairs a NameError
C5_Repair == pc = "NameError" /\ args.magic /\ pc' = "check"

C6_NoCandidate ==
    /\ pc = "ValueError"
    /\ pending = NoTablesFound
    /\ \A f \in args.function_name : DefsOf(generated_code, f) = {}

\* C6: on no-tables-found with no candidate function name defined in the scaffold (or
\* no candidate at all) handle_cli prints the no-tables guidance naming the function,
\* executes nothing more, writes no output and returns False.
C6_NoFunctionIsFatal ==
    [][C6_NoCandidate =>
         /\ pc' = "done"
         /\ result' = "False"
         /\ stderr' = Append(stderr, Diag("no-tables-found", NoExc, args.function_name))
         /\ output' = <<>>
         /\ formatter_calls' = 0
         /\ UNCHANGED <<execs, generated_code, code_before, code_after, extra_code>>]_vars

C6_Witness ==
    /\ pc = "done"
    /\ result = "False"
    /\ args.function_name # {}
    /\ stderr # <<>>
    /\ Last(stderr).kind = "no-tables-found"
    /\ execs > 1

\* no-tables-found, and find_function_to_call finds a candidate function
C7_Found ==
    /\ pc = "ValueError"
    /\ pending = NoTablesFound
    /\ \E f \in args.function_name : find_function_to_call(generated_code, f) # "None"

\* C7: on no-tables-found with a candidate function found in the scaffold, the scaffold
\* executed next contains a call of that function with db as its argument, the retry
\* costs no budget beyond the decrement of the next execution, and when the function
\* declares tables the next execution finds tables.
C7_FoundFunctionIsCalled ==
    [][C7_Found =>
         /\ pc' = "while"
         /\ retry_counter' = retry_counter
         /\ \A f \in args.function_name :
              find_function_to_call(generated_code, f) # "None" =>
                 /\ \E i \in 1..Len(generated_code') : generated_code'[i] = CallStmt(f, "db")
                 /\ (\E i \in DefsOf(generated_code, f) : generated_code[i].arg # "") =>
                      exec(generated_code', catch', ExecEnv').exc # NoTablesFound]_vars

\* C8: after an ImportError for module M whose import is literal in a snippet, no
\* import statement of M is left in either snippet and the next execution does not
\* raise the same ImportError.
C8_ImportIsRemoved ==
    [][pc = "ImportError" =>
         /\ ImportsOf(code_before', pending.arg) = {}
         /\ ImportsOf(code_after', pending.arg) = {}
         /\ exec(generated_code', catch', ExecEnv').exc # pending]_vars

\* the KeyError clause is about to handle a missing relation
C9_Repair == pc = "KeyError" /\ MISSING_RELATIONSHIP(pending)

\* C9: after a missing-relation failure naming table T, a placeholder definition of T
\* is appended to the extra code (so the scaffold defines T in the old and in the new
\* sandbox) and T joins the exclusion set; with an auto-discovered table list no block
\* of the output channel is about an excluded table.
C9_PlaceholderIsExcluded ==
    /\ [][C9_Repair =>
            LET T == pending.arg
                switch == CHOOSE i \in 1..Len(generated_code') : generated_code'[i] = TplSwitch
            IN /\ extra_code' = Append(extra_code, PlaceholderStmt(T))
               /\ special_tables' = special_tables \cup {T}
               /\ \E i \in 1..(switch - 1) : generated_code'[i] = PlaceholderStmt(T)
               /\ \E i \in (switch + 1)..Len(generated_code') : generated_code'[i] = PlaceholderStmt(T)]_vars
    /\ [][special_tables \subseteq special_tables']_vars
    /\ [](args.tables = <<>> =>
            \A T \in special_tables :
               /\ \A i \in 1..Len(file) : file[i][2] # T
               /\ \A i \in 1..Len(output) : output[i][2] # T)

C9_Witness ==
    /\ result = "True"
    /\ args.tables = <<>>
    /\ "b" \in special_tables
    /\ \E i \in 1..Len(generated_code) : generated_code[i] = PlaceholderStmt("b")
    /\ output # <<>>

\* a failure none of the four repair strategies is about
Unclassified(e) ==
    /\ e # NoExc
    /\ e # NoTablesFound
    /\ e.cls \notin {"NameError", "UnboundLocalError", "ImportError", "ModuleNotFoundError"}
    /\ ~(e.cls = "KeyError" /\ MISSING_RELATIONSHIP(e))
    /\ e.msg # "Unknown format"

\* handle_cli has returned False with "could not be fixed" and the error as its last words
FatalDiagnosed(e) ==
    /\ result = "False"
    /\ retry_counter = 0
    /\ stderr # <<>>
    /\ Last(stderr) = Diag("could not be fixed", e, {})

\* C10 as claimed: every failure of an execution that is not no-tables-found, a missing
\* name, an import failure or a missing relation sets the budget to zero, is followed
\* by no execution and no repair, and ends with the "could not be fixed" diagnostic
\* that has the error text, and False.
C10_UnclassifiedIsFatal ==
    (pc = "done" /\ execs > 0 /\ Unclassified(pending)) => FatalDiagnosed(pending)

\* C10 as amended: the same for every failure that is an Exception but no ValueError,
\* NameError, ImportError or KeyError.
C10_OtherExceptionIsFatal ==
    /\ []((pc \in {"check", "done"} /\ execs > 0 /\ ExceptClause(pending) = "Exception") =>
            /\ retry_counter = 0
            /\ err = pending
            /\ pc = "done" => FatalDiagnosed(pending) /\ output = <<>>)
    /\ [][ExceptClause(pending) = "Exception" =>
            UNCHANGED <<code_before, code_after, extra_code, generated_code, special_tables,
                        execs, pending>>]_vars

C10_Witness ==
    /\ pc = "done"
    /\ pending.cls = "RecursionError"
    /\ FatalDiagnosed(pending)
    /\ execs > 1

\* C11: a KeyError of the scaffold whose text names no missing relation is not repaired
\* and not turned into False: it leaves handle_cli as that KeyError, and the extra code,
\* the exclusion set, the snippets and the scaffold stay as they are, nothing is
\* executed again and nothing is printed or written.
C11_OtherKeyErrorPropagates ==
    [][(pc = "KeyError" /\ pending.msg # "Cannot resolve reference") =>
         /\ pc' = "done"
         /\ result' = "raised"
         /\ pending.cls = "KeyError"
         /\ pending' = pending
         /\ UNCHANGED <<extra_code, special_tables, code_before, code_after, generated_code,
                        retry_counter, execs, stderr, output, formatter_calls>>]_vars

C11_Witness ==
    /\ pc = "done"
    /\ result = "raised"
    /\ pending.cls = "KeyError"
    /\ pending.msg = "raised by the snippet"
    /\ execs > 1
    /\ extra_code # <<>>

\* a statement that binds db or database
BindsSandboxName(s) == s.k = "assign" /\ s.name \in db_names

\* a relative import
IsLocalImport(s) == s.k = "relimport"

Unsafe(code) == \E i \in 1..Len(code) : BindsSandboxName(code[i]) \/ IsLocalImport(code[i])

\* the code without the statements that bind db/database and without the relative
\* imports, every other statement kept, in order
Sanitized(code) == SelectSeq(code, LAMBDA s : ~BindsSandboxName(s) /\ ~IsLocalImport(s))

\* C12: without fix, ensure_no_migrate_on_real_db raises ValueError exactly when the code
\* binds db/database or has a relative import, and otherwise returns the code unchanged;
\* with fix it does not raise and returns the code without those statements, all other
\* statements kept in order; handle_cli applies it to both snippets before the first
\* execution, so no scaffold that is executed binds db/database or imports relatively
\* in its snippet parts.
C12_SnippetsAreSanitized ==
    /\ [][pc = "start" =>
            IF args.magic
            THEN /\ result' # "raised"
                 /\ code_before' = Sanitized(code_before)
                 /\ code_after' = Sanitized(code_after)
            ELSE IF Unsafe(code_before) \/ Unsafe(code_after)
            THEN result' = "raised" /\ pending'.cls = "ValueError" /\ execs' = 0
            ELSE /\ result' # "raised"
                 /\ code_before' = code_before
                 /\ code_after' = code_after]_vars
    /\ [](execs > 0 => ~Unsafe(code_before) /\ ~Unsafe(code_after) /\ ~Unsafe(generated_code))

\* the table list a scaffold processes, given the tables of its two sandboxes
ProcessedTables(old, new) ==
    IF flatten(args.tables) # <<>> THEN flatten(args.tables)
    ELSE excl(uniq(old \o new), special_tables)

\* one block per table: start marker, one body, end marker
RECURSIVE BlocksOf(_, _, _)
BlocksOf(tl, old, new) ==
    IF tl = <<>> THEN <<>>
    ELSE LET t == Head(tl)
             body == IF Contains(old, t) /\ Contains(new, t) THEN "ALTER"
                     ELSE IF Contains(old, t) THEN "DROP"
                     ELSE IF Contains(new, t) THEN "CREATE"
                     ELSE "nothing"
         IN << <<"start", t>>, <<body, t>>, <<"end", "">> >> \o BlocksOf(Tail(tl), old, new)

\* C13: a successful execution writes to the output channel, for every table of the
\* processed list and in list order, exactly one block: the start marker of the table,
\* one body (the ALTER diff when the table is in both sandboxes, DROP TABLE when it is
\* only in the old one, CREATE when it is only in the new one) and the end marker; so
\* blocks do not interleave and there are as many start markers as end markers as tables.
C13_OneBlockPerTable ==
    [][(pc = "while" /\ pc' = "ok") =>
         LET run == exec(generated_code, catch, ExecEnv)
             tl == ProcessedTables(run.old, run.db)
         IN /\ file' = BlocksOf(tl, run.old, run.db)
            /\ Len(SelectSeq(file', LAMBDA l : l[1] = "start")) = Len(tl)
            /\ Len(SelectSeq(file', LAMBDA l : l[1] = "end")) = Len(tl)]_vars

C13_Witness ==
    /\ pc = "ok"
    /\ Len(file) = 6
    /\ file[2][1] = "DROP"
    /\ file[5][1] \in {"CREATE", "ALTER"}

\* the tables of the start markers of an output channel, in order
RECURSIVE StartsOf(_)
StartsOf(f) ==
    IF f = <<>> THEN <<>>
    ELSE (IF Head(f)[1] = "start" THEN <<Head(f)[2]>> ELSE <<>>) \o StartsOf(Tail(f))

IsPrefix(p, q) == Len(p) <= Len(q) /\ SubSeq(q, 1, Len(p)) = p

\* C14: once both snippets have run, the processed table list is the flattened explicit
\* list when that is not empty, and otherwise the old sandbox's tables followed by the
\* new sandbox's, repeated names dropped keeping the first, excluded names dropped
\* keeping the order; an empty list raises no-tables-found with nothing written, a
\* non-empty one is processed in that order (all of it when the execution succeeds).
C14_ProcessedTableList ==
    [][(pc = "while" /\ execs' = execs + 1) =>
         LET snippets == SubSeq(generated_code, 1, Len(generated_code) - 1)
             ran == exec(snippets, catch, ExecEnv)
             all == ran.old \o ran.db
             firsts == SelectSeq([i \in 1..Len(all) |-> <<i, all[i]>>],
                                 LAMBDA x : \A j \in 1..(x[1] - 1) : all[j] # x[2])
             kept == SelectSeq(firsts, LAMBDA x : x[2] \notin special_tables)
             discovered == [i \in 1..Len(kept) |-> kept[i][2]]
             given == flatten(args.tables)
             tl == IF given # <<>> THEN given ELSE discovered
         IN ran.exc = NoExc =>
              /\ tl = <<>> => pending' = NoTablesFound /\ file' = <<>>
              /\ tl # <<>> =>
                   /\ pending' # NoTablesFound
                   /\ IsPrefix(StartsOf(file'), tl)
                   /\ pc' = "ok" => StartsOf(file') = tl]_vars

C14_Witness ==
    /\ pc = "ok"
    /\ args.tables = <<>>
    /\ special_tables = {"b"}
    /\ StartsOf(file) = <<"a">>
    /\ \E i \in 1..Len(file) : file[i] = <<"ALTER", "a">>

\* the dialect names generate_sql documents as supported, written as documented
DocumentedDialects == {psql, postgresql, sqlite, sqlite3, mysql}

\* C15: generate_sql(X, X, db_type=d) returns the empty string for every table
\* snapshot X and every supported dialect d, whatever folder it works in.
C15_DiffIdempotence ==
    (/\ ip = "done"
     /\ call.mode = "alter"
     /\ call.new = call.old
     /\ call.db_type \in DocumentedDialects)
    => outcome = [kind |-> "returned", value |-> <<>>]

\* the diff of a snapshot with itself was taken in a folder that held an older sql.log
C15_Witness ==
    /\ ip = "done"
    /\ call.mode = "alter"
    /\ call.new = call.old
    /\ call.db_type = psql
    /\ CallerFolder \in call.fs.haslog
    /\ frame.old_fields = call.old.fields
    /\ frame.new_fields = call.old.fields
    /\ outcome = [kind |-> "returned", value |-> <<>>]

\* C16: in two-snapshot mode the returned text is exactly the lines that this
\* call's migrate_table logged and that begin with ALTER or UPDATE, in log
\* order, and it is empty when migrate_table logged nothing; no other kind of
\* line, no line logged while the field metadata was materialised and no line
\* that was in the folder before the call is part of it.
C16_OnlyThisCallsAlterLines ==
    (ip = "done" /\ call.mode = "alter" /\ outcome.kind = "returned")
    => /\ outcome.value = SelectSeq(frame.logged, LAMBDA l : l.prefix \in {"ALTER", "UPDATE"})
       /\ frame.logged = <<>> => outcome.value = <<>>
       /\ \A i \in 1..Len(outcome.value) :
            /\ outcome.value[i].prefix \in {"ALTER", "UPDATE"}
            /\ outcome.value[i].by = "migrate_table"

\* a diff with an ALTER and an UPDATE line was returned from a folder whose
\* sql.log already held an ALTER line, after the new table's file was written there
C16_Witness ==
    /\ ip = "done"
    /\ call.mode = "alter"
    /\ CallerFolder \in call.fs.haslog
    /\ outcome.kind = "returned"
    /\ \E i \in 1..Len(outcome.value) : outcome.value[i].prefix = "UPDATE"
    /\ Len(outcome.value) < Len(frame.logged)
    /\ fs.tables[CallerFolder] = <<call.new.fields>>

\* the dialect generate_sql is to work with: the explicit one, else the old
\* (or only) table's, else the new table's; <<>> when there is none
C17_Expected ==
    IF call.db_type # <<>> THEN call.db_type
    ELSE IF call.old.dbname # <<>> THEN call.old.dbname
    ELSE IF call.mode = "alter" THEN call.new.dbname
    ELSE <<>>

\* C17: an explicit db_type always decides the dialect; without one it is the
\* _dbname of the table's database (alter mode: the old table first, then the
\* new one); when there is none, ValueError is raised before any migrator is
\* built and before any scratch state is written.
C17_DialectResolution ==
    /\ [][(ip \in {"create:resolve", "alter:resolve"})
            => /\ migrators = <<>> /\ held = <<>> /\ fs = call.fs
               /\ IF C17_Expected = <<>>
                  THEN /\ outcome' = [kind |-> "raised", value |-> "ValueError"]
                       /\ ip' = "done"
                       /\ migrators' = <<>> /\ held' = <<>> /\ fs' = call.fs
                  ELSE /\ frame'.db_type = C17_Expected
                       /\ outcome'.kind = "running"]_diff_vars
    /\ [](migrators # <<>> => frame.db_type = C17_Expected)
    /\ [](outcome.kind = "returned" => migrators # <<>>)

\* a diff was computed in the new table's dialect because no db_type was given
\* and the old table's database has none
C17_Witness ==
    /\ ip = "done"
    /\ call.mode = "alter"
    /\ call.db_type = <<>>
    /\ call.old.dbname = <<>>
    /\ call.new.dbname = postgres
    /\ frame.db_type = postgres
    /\ outcome.kind = "returned"
    /\ \A i \in 1..Len(migrators) : migrators[i].driver = psycopg2

\* the driver each spelling of a dialect name stands for; <<>> for a name that
\* stands for none
C18_Driver(name) ==
    CASE name \in {postgres, postgresql, psql, PSQL, psycopg2} -> psycopg2
      [] name \in {sqlite, SQLite, sqlite3} -> sqlite3
      [] name \in {mysql, MySql, pymysql} -> pymysql
      [] OTHER -> <<>>

\* C18: _build_dummy_migrator resolves the dialect name through the alias
\* table without regard to case, and raises ValueError for every name that
\* does not resolve to psycopg2, sqlite3 or pymysql; this happens before any
\* table is compiled, so an unsupported dialect never produces SQL.
C18_AliasResolution ==
    /\ [][(ip \in {"create:build", "old:build", "new:build", "alter:build"})
            => IF C18_Driver(frame.db_type) = <<>>
               THEN /\ outcome' = [kind |-> "raised", value |-> "ValueError"]
                    /\ migrators' = migrators
               ELSE /\ Len(migrators') = Len(migrators) + 1
                    /\ migrators'[Len(migrators')].driver = C18_Driver(frame.db_type)
                    /\ outcome'.kind = "running"]_diff_vars
    /\ [](C18_Driver(frame.db_type) = <<>>
            => /\ outcome.kind # "returned"
               /\ frame.result = <<>>
               /\ migrators = <<>>
               /\ \A d \in Folders : fs.tables[d] = <<>> /\ fs.log[d] = call.fs.log[d])

\* a diff was returned for a dialect name given in upper case
C18_Witness ==
    /\ ip = "done"
    /\ call.db_type = PSQL
    /\ call.mode = "alter"
    /\ outcome.kind = "returned"
    /\ outcome.value # <<>>
    /\ \A i \in 1..Len(migrators) : migrators[i].driver = psycopg2

\* the folder_path the with-block at ip is entered with
C19_Argument ==
    IF ip = "old:enter" THEN PathValue("NoneType", NoFolder) ELSE frame.db_folder

C20_Twice(i) ==
    /\ writes[i].output_format = "edwh-migrate"
    /\ writes[i + 1].output_format = "edwh-migrate"

\* C20 as stated: formatting the same captured output to the same file twice
\* in edwh-migrate format appends nothing the second time; the file after the
\* second call equals the file after the first.
C20_Idempotent ==
    \A i \in 1..(Len(writes) - 1) :
        C20_Twice(i) => writes[i + 1].after = writes[i].after

\* C20: formatting the same captured output to the same file twice in
\* edwh-migrate format on the same calendar date appends nothing the second
\* time: every block whose function name is already defined in the file with
\* the same contents is skipped, and the file after the second call equals
\* the file after the first.
C20_IdempotentSameDate ==
    \A i \in 1..(Len(writes) - 1) :
        (C20_Twice(i) /\ writes[i].date = writes[i + 1].date)
        => /\ writes[i + 1].after = writes[i].after
           /\ notes[i + 1] = <<"Nothing to write">>

\* two migrations were appended to a file that held an older one, and the
\* second call on the same day left the file as it was
C20_Witness ==
    /\ Len(writes) >= 2
    /\ C20_Twice(1)
    /\ writes[1].date = writes[2].date
    /\ writes[1].before \in OlderFiles
    /\ Len(writes[1].after.text) > Len(writes[1].before.text) + 4
    /\ writes[2].after = writes[1].after

\* the numbers under which the file defines a function for name and date
C21_Taken(existing, name, date) ==
    {n \in 1..LAST_NUMBER :
        \E i \in 1..Len(existing) :
            /\ existing[i].kind = "def" /\ existing[i].name = name
            /\ existing[i].date = date /\ existing[i].n = n}

\* the block's text occurs in the file
C21_Same(b, existing) == IsInfix(SqlLines(b.stmts), existing)

\* the function written for block b under number n
C21_Function(b, date, n) ==
    <<DefLine(sql_to_function_name(b.stmts), date, n)>> \o SqlLines(b.stmts) \o <<EndLine>>

\* what is written for block b: under 001 when that name is free; else
\* nothing, unless it is an ALTER block with different contents, which goes
\* under the lowest free number. written_empty tells whether a block without
\* SQL is written like any other.
C21_Piece(b, existing, date, written_empty) ==
    LET name == sql_to_function_name(b.stmts)
        taken == C21_Taken(existing, name, date)
        free == (1..LAST_NUMBER) \ taken
        lowest == CHOOSE n \in free : \A m \in free : n <= m
    IN IF b.stmts = <<>> /\ ~written_empty THEN <<>>
       ELSE IF 1 \notin taken THEN C21_Function(b, date, 1)
       ELSE IF C21_Same(b, existing) THEN <<>>
       ELSE IF name[1] = "alter" /\ free # {} THEN C21_Function(b, date, lowest)
       ELSE <<>>

RECURSIVE C21_Pieces(_, _, _, _)
C21_Pieces(blocks, existing, date, written_empty) ==
    IF blocks = <<>> THEN <<>>
    ELSE C21_Piece(blocks[1], existing, date, written_empty)
         \o C21_Pieces(Tail(blocks), existing, date, written_empty)

\* every edwh-migrate call appended exactly the pieces of its blocks, in order
C21_Appended(written_empty) ==
    \A i \in 1..Len(writes) :
        writes[i].output_format = "edwh-migrate"
        => LET before == writes[i].before
               existing == IF before.exists THEN before.text ELSE <<>>
               head == IF existing = <<>> THEN <<ImportLine>> ELSE existing
           IN writes[i].after.text
                = head \o C21_Pieces(captured, existing, writes[i].date, written_empty)

RECURSIVE C22_Bodies(_)
C22_Bodies(blocks) ==
    IF blocks = <<>> THEN <<>>
    ELSE SqlLines(blocks[1].stmts) \o C22_Bodies(Tail(blocks))

\* what call i appended to the file
C22_AppendedBy(i) ==
    SubSeq(writes[i].after.text, Len(writes[i].before.text) + 1, Len(writes[i].after.text))

\* C22: in the default output format all protocol markers are stripped: the
\* emitted text holds no end marker and no '-- start <table> --' line, and it
\* holds the SQL of all blocks in their original order.
C22_MarkersStripped ==
    \A i \in 1..Len(writes) :
        writes[i].output_format = "default"
        => /\ \A j \in 1..Len(C22_AppendedBy(i)) : C22_AppendedBy(i)[j].kind = "sql"
           /\ C22_AppendedBy(i) = C22_Bodies(captured)

\* what the default format does give: the SQL of all blocks, in order, and
\* nothing else but the start markers
C22_BodiesInOrder ==
    \A i \in 1..Len(writes) :
        writes[i].output_format = "default"
        => /\ SelectSeq(C22_AppendedBy(i), LAMBDA l : l.kind = "sql") = C22_Bodies(captured)
           /\ \A j \in 1..Len(C22_AppendedBy(i)) : C22_AppendedBy(i)[j].kind \in {"sql", "start"}

\* the names a statement binds when it runs: the targets of an assignment, the name
\* an import statement binds (the "as" name if it has one), the target of a for loop
C24_Binds(s) ==
    CASE s.k = "assign" -> {s.name}
      [] s.k = "import" -> {s.name}
      [] s.k \in {"importas", "from"} -> {s.arg}
      [] s.k = "for" -> {s.name}
      [] OTHER -> {}

C24_Bound(code) == UNION {C24_Binds(code[i]) : i \in 1..Len(code)}

\* C24: find_missing_variables(S) contains no name that S binds by assignment, by
\* import or as a for-loop target and no built-in name, and every name in it is used
\* in load context somewhere in S
C24_NoBoundNameMissing ==
    asked.function = "find_missing_variables" =>
        /\ answer \cap C24_Bound(snippet) = {}
        /\ answer \cap BUILTINS = {}
        /\ answer \subseteq UNION {UsedNames(snippet[i]) : i \in 1..Len(snippet)}

\* the part that holds: a name counts as bound when an import statement names it as
\* a module or imports it from one, when a for loop has it as target, or when it is
\* assigned and not deleted after its last assignment
C24_Counted(code) ==
    {n \in C24_Bound(code) \cup {code[i].name : i \in {j \in 1..Len(code) : code[j].k = "importas"}} :
        \/ \E i \in 1..Len(code) : code[i].k \in {"import", "importas"} /\ code[i].name = n
        \/ \E i \in 1..Len(code) : code[i].k = "from" /\ code[i].arg = n
        \/ \E i \in 1..Len(code) : code[i].k = "for" /\ code[i].name = n
        \/ \E i \in 1..Len(code) :
              /\ code[i].k = "assign" /\ code[i].name = n
              /\ \A k \in (i + 1)..Len(code) : ~(code[k].k = "del" /\ code[k].name = n)}

C24_MissingAreUsedAndNotCounted ==
    asked.function = "find_missing_variables" =>
        /\ answer \cap C24_Counted(snippet) = {}
        /\ answer \cap BUILTINS = {}
        /\ answer \subseteq UNION {UsedNames(snippet[i]) : i \in 1..Len(snippet)}

\* an assignment to one of the names, or the definition of a function or class of
\* that name
C25_Defines(s, names) == s.k \in {"assign", "def", "class"} /\ s.name \in names

\* C25: remove_specific_variables(code, names) leaves no assignment target and no
\* function or class definition whose name is in names, wherever they stand, and
\* keeps every other statement
C25_AllRemoved ==
    asked.function = "remove_specific_variables" =>
        /\ \A i \in 1..Len(answer) : ~C25_Defines(answer[i], asked.to_remove)
        /\ SelectSeq(answer, LAMBDA s : s # ExprStmt)
             = SelectSeq(snippet, LAMBDA s : ~C25_Defines(s, asked.to_remove))

\* the statements about other names are all kept, in their order
C25_OthersKept ==
    asked.function = "remove_specific_variables" =>
        SelectSeq(answer, LAMBDA s : s # ExprStmt /\ ~C25_Defines(s, asked.to_remove))
            = SelectSeq(snippet, LAMBDA s : ~C25_Defines(s, asked.to_remove))

\* the two tables point at the databases they pointed at when generate_sql was called
C30_AsFound ==
    /\ frame.old_db = TableDb("define_table_old", call.old.dbname)
    /\ frame.new_db = TableDb("define_table_new", call.new.dbname)

\* C30: when generate_alter_statement has returned or raised, define_table_old._db
\* and define_table_new._db are what they were before the call; between the swap
\* and the finally clause both point at the migrator's database
C30_TablesRestored ==
    /\ ip = "done" => C30_AsFound
    /\ ip \in {"alter:migrate", "alter:collect", "alter:finally"} =>
          /\ frame.old_db.of = "migrator"
          /\ frame.new_db.of = "migrator"
    /\ ip \notin {"alter:migrate", "alter:collect", "alter:finally"} => C30_AsFound

\* migrate_table raised after both tables were pointed at the migrator's database
C30_Witness ==
    /\ ip = "done"
    /\ outcome = [kind |-> "raised", value |-> "Exception"]
    /\ frame.original_db_old = TableDb("define_table_old", call.old.dbname)
    /\ frame.original_db_new = TableDb("define_table_new", call.new.dbname)
    /\ C30_AsFound

\* the early return: no sql.log was written, and the tables were swapped and restored
C30_EarlyReturn ==
    /\ ip = "done"
    /\ outcome = [kind |-> "returned", value |-> <<>>]
    /\ frame.logged = <<>>
    /\ frame.original_db_old = TableDb("define_table_old", call.old.dbname)
    /\ C30_AsFound

\* the normal return with alter statements
C30_NormalReturn ==
    /\ ip = "done"
    /\ outcome.kind = "returned"
    /\ outcome.value # <<>>
    /\ frame.original_db_old = TableDb("define_table_old", call.old.dbname)
    /\ C30_AsFound


\* C26: extra_code is empty when the request has set up its first scaffold, and every
\* later step leaves the old value as a prefix of the new one; a repair of a NameError
\* or of a missing relationship makes it longer
C26_AppendOnly ==
    /\ [][pc = "start" => extra_code' = <<>>]_vars
    /\ [][pc # "start" => IsPrefix(extra_code, extra_code')]_vars
    /\ [][(pc = "KeyError" /\ pc' = "check") => Len(extra_code') = Len(extra_code) + 1]_vars
    /\ [][(pc = "NameError" /\ pc' = "check") => Len(extra_code') > Len(extra_code)]_vars

\* a placeholder table definition was appended behind the stub bindings of an earlier
\* repair
C26_Witness ==
    /\ pc = "check"
    /\ Len(extra_code) >= 3
    /\ extra_code[1] = ClassEmpty
    /\ Last(extra_code).k = "placeholder"

\* C27: the scaffold an attempt executes is the template filled with the current
\* snippets and the accumulated extra code
C27_ScaffoldIsTemplate ==
    pc = "while" => generated_code = Template(code_before, code_after, extra_code)

\* what holds: the repairs of a NameError, an ImportError and a missing relationship
\* rebuild the scaffold from the template
C27_RebuiltByOtherRepairs ==
    [][pc' = "check" /\ pc \in {"NameError", "ImportError", "KeyError"}
          => generated_code' = Template(code_before', code_after', extra_code')]_vars

\* C28: when an attempt starts, the namespace handed to exec holds no name besides
\* the protocol variables
C28_FreshScope ==
    (pc = "while" /\ retry_counter # 0) => catch = {}

\* C29: after every repair both snippets and the rebuilt scaffold are code that parses
C29_AlwaysParses ==
    pc \in {"check", "while"} =>
        /\ Parses(code_before)
        /\ Parses(code_after)
        /\ Parses(generated_code)

\* what holds: the repairs that work on the syntax tree leave code that parses
C29_TreeRepairsParse ==
    [][(pc \in {"start", "ValueError", "NameError", "KeyError"}
            \/ (pc = "ImportError" /\ ~HasPath(pending)))
          => (Parses(code_before') /\ Parses(code_after') /\ Parses(generated_code'))]_vars

\* a file argument that core_alter cannot read: the path does not exist, or the
\* version asked for is a commit git does not know
C23_MissingAnywhere(f) == ~f.exists \/ f.version = "fake"

\* the same, where outside a git repository no version is looked up
C23_Missing(f, git_root) == ~f.exists \/ (git_root /\ f.version = "fake")

C23_Raised == pc' = "done" /\ result' = "raised" /\ pending'.cls = "FileNotFoundError"

C23_ReturnedFalseUncalled ==
    /\ pc' = "done" /\ result' = "False"
    /\ UNCHANGED <<generated_code, execs, formatter_calls, output, extra_code>>

\* core_alter hands over to handle_cli exactly when both files are readable, both
\* hold code and the code differs; an unsupported dialect ends handle_cli in the
\* except clause
C23_Rest ==
    /\ [][(pc = "core_alter" /\ ~C23_Missing(source.before, source.git_root)
              /\ ~C23_Missing(source.after, source.git_root)
              /\ (code_before = <<>> \/ code_after = <<>> \/ code_before = code_after))
            => C23_ReturnedFalseUncalled]_all_vars
    /\ [][(pc = "core_alter" /\ pc' = "start")
            => (code_before # <<>> /\ code_after # <<>> /\ code_before # code_after)]_all_vars
    /\ [][(pc = "ValueError" /\ pending.msg = "Unsupported database type")
            => /\ pc' = "done" /\ result' = "False"
               /\ UNCHANGED <<generated_code, code_before, code_after, extra_code, execs,
                               retry_counter, special_tables>>]_all_vars

C23_SameCode ==
    /\ source \in AlterCalls
    /\ code_before # <<>> /\ code_before = code_after
    /\ pc = "done" /\ result = "False"
    /\ stderr = <<Diag("Both contain the same code", NoExc, {})>>
    /\ generated_code = <<>> /\ execs = 0

\* handle_cli returned False after one execution that met the unsupported dialect
C23_UnsupportedDialect ==
    /\ pc = "done" /\ result = "False" /\ execs = 1
    /\ pending.msg = "Unsupported database type"

\* outside a git repository a version that does not exist is not looked up: the
\* files on disk are handed to handle_cli
C23_VersionIgnored ==
    /\ pc = "core_alter"
    /\ ~source.git_root /\ source.before.version = "fake"
    /\ ENABLED (CoreAlter /\ pc' = "start")

====
